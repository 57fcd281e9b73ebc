------------------------- MODULE MappedTimingProofs -------------------------
(***************************************************************************)
(* Machine-checked proofs, for any number of owners, any libraries and     *)
(* constraints, any acyclic netlist and deltas, and a failure at any stage *)
(* of any owner: every timing view follows the mapped netlist, and its     *)
(* order, loads, arrival rows, rules and cached snapshot are those a full  *)
(* propagation of its graph computes.                                      *)
(*                                                                         *)
(* The first part needs of an owner the instances of its graph and its two *)
(* flags. The second rests on the arrival rows being the only fixed point  *)
(* of PropagateSlots over an order: an incremental propagation ends in it  *)
(* if it is seeded with every net whose row may not be one, and a journal  *)
(* that says what a row was leads back to it.                              *)
(***************************************************************************)
EXTENDS MappedTiming, SequenceLemmas, FunctionTheorems

\* The fields the proof follows.
OwnerShape(t) ==
    /\ {"graph", "active", "prepared"} \subseteq DOMAIN t
    /\ "inst" \in DOMAIN t.graph

\* An owner without an edit that times the given instances.
IdleOn(t, inst) ==
    OwnerShape(t) /\ t.graph.inst = inst /\ t.active = FALSE /\ t.prepared = FALSE

\* The instances of the netlist before the edit whose journal this is.
Undone(inst, old) == [i \in Ids |-> IF i \in DOMAIN old THEN old[i] ELSE inst[i]]

\* An open transaction edited all owners or, for an empty delta, none, and each
\* journal leads from the present netlist to the one the transaction began with.
EditExact ==
    edit # NoEdit =>
        /\ edit.mapped = [i \in Ids |-> edit.mapped[i]]
        /\ edit.timing = <<>> /\ Owners # {} => edit.mapped = mapped
        /\ edit.timing # <<>> =>
              /\ DOMAIN edit.timing = 1..Len(OwnerOrder)
              /\ \A k \in DOMAIN edit.timing :
                    Undone(mapped, edit.timing[k].graph.old_inst) = edit.mapped

\* ViewsAligned, with the flags spelled out.
Open == edit # NoEdit /\ edit.timing # <<>>

Aligned ==
    \A o \in Owners :
        /\ timing[o].graph.inst = mapped
        /\ timing[o].prepared = FALSE
        /\ Open => timing[o].active = TRUE
        /\ ~Open => timing[o].active = FALSE

\* The inductive invariant of ViewsAligned.
IInv ==
    /\ mapped = [i \in Ids |-> mapped[i]]
    /\ timing = [o \in Owners |-> timing[o]]
    /\ \A o \in Owners : OwnerShape(timing[o])
    /\ EditExact
    /\ Aligned

-----------------------------------------------------------------------------
(***************************************************************************)
(* One owner.                                                              *)
(***************************************************************************)

\* Bringing the order up to date leaves the instances alone.
LEMMA OrderKeepsInstances ==
  ASSUME NEW g, "inst" \in DOMAIN g
  PROVE  /\ "inst" \in DOMAIN EnsureTopologicalOrder(g)
         /\ EnsureTopologicalOrder(g).inst = g.inst
BY DEF EnsureTopologicalOrder

\* So does catching up with deferred required rows, which touches no flag.
LEMMA SynchronizeKeeps ==
  ASSUME NEW o, NEW t, NEW fails, OwnerShape(t)
  PROVE  LET s == SynchronizeRequireds(o, t, fails) IN
         /\ OwnerShape(s) /\ s.graph.inst = t.graph.inst
         /\ s.active = t.active /\ s.prepared = t.prepared
<1>1. /\ "inst" \in DOMAIN EnsureTopologicalOrder(t.graph)
      /\ EnsureTopologicalOrder(t.graph).inst = t.graph.inst
  BY OrderKeepsInstances DEF OwnerShape
<1>. QED BY <1>1 DEF SynchronizeRequireds, OwnerShape

\* Replacing a region gives the graph the delta's instances and the journal
\* those they replace.
LEMMA ReplaceFacts ==
  ASSUME NEW o, NEW g, NEW delta, "inst" \in DOMAIN g
  PROVE  LET r == ReplaceInstanceRegion(o, g, delta) IN
         /\ "inst" \in DOMAIN r.graph
         /\ r.graph.inst = [i \in Ids |-> IF i \in DOMAIN delta THEN delta[i] ELSE g.inst[i]]
         /\ r.journal.old_inst = [i \in DOMAIN delta |-> g.inst[i]]
BY DEF ReplaceInstanceRegion

\* Undoing a region puts the replaced instances back.
LEMMA UndoFacts ==
  ASSUME NEW g, NEW journal, "inst" \in DOMAIN g
  PROVE  LET r == RollbackInstanceRegion(g, journal) IN
         /\ "inst" \in DOMAIN r
         /\ r.inst = Undone(g.inst, journal.old_inst)
BY DEF RollbackInstanceRegion, Undone

\* Putting a delta on and its journal back gives the instances there were.
LEMMA DeltaUndone ==
  ASSUME NEW inst, inst = [i \in Ids |-> inst[i]], NEW delta, DOMAIN delta \subseteq Ids
  PROVE  Undone(Overlay(inst, delta), [i \in DOMAIN delta |-> inst[i]]) = inst
BY DEF Undone, Overlay

\* What an owner without an edit answers to a delta, eager or deferred, with a
\* failure at any stage or none: the edit in full, or itself as it was.
Answers(t, delta, r) ==
    /\ r.ok \in BOOLEAN
    /\ OwnerShape(r.owner) /\ ~r.owner.prepared
    /\ r.owner.active = r.ok
    /\ r.owner.graph.inst = IF r.ok THEN Overlay(t.graph.inst, delta) ELSE t.graph.inst
    /\ r.ok => r.edit.graph.old_inst = [i \in DOMAIN delta |-> t.graph.inst[i]]

\* What the stages after the topology leave of the instances and the flags: a
\* refusal at any of them leaves what there was.
LEMMA AfterTopologyFacts ==
  ASSUME NEW o, NEW t, NEW delta, NEW defer, NEW stage, OwnerShape(t),
         DOMAIN delta \subseteq Ids, t.graph.inst = [i \in Ids |-> t.graph.inst[i]],
         t.active = FALSE, t.prepared = FALSE
  PROVE  Answers(t, delta, ApplyRegionDeltaInner(o, t, delta, defer, stage))
<1>. DEFINE region == ReplaceInstanceRegion(o, t.graph, delta)
            g == EnsureTopologicalOrder(region.graph)
            r == ApplyRegionDeltaInner(o, t, delta, defer, stage)
            Unchanged(u) == /\ OwnerShape(u) /\ u.graph.inst = t.graph.inst
                            /\ u.active = FALSE /\ u.prepared = FALSE
<1>1. /\ "inst" \in DOMAIN region.graph
      /\ region.graph.inst = Overlay(t.graph.inst, delta)
      /\ region.journal.old_inst = [i \in DOMAIN delta |-> t.graph.inst[i]]
  BY ReplaceFacts DEF OwnerShape, Overlay
<1>2. "inst" \in DOMAIN g /\ g.inst = Overlay(t.graph.inst, delta)
  BY <1>1, OrderKeepsInstances
<1>3. ASSUME NEW h, "inst" \in DOMAIN h, h.inst = Overlay(t.graph.inst, delta)
      PROVE  /\ "inst" \in DOMAIN RollbackInstanceRegion(h, region.journal)
             /\ RollbackInstanceRegion(h, region.journal).inst = t.graph.inst
  BY <1>1, <1>3, UndoFacts, DeltaUndone
<1>4. r = AfterTopology(o, t, delta, defer, stage, region)
  BY DEF ApplyRegionDeltaInner
<1>. HIDE DEF region, r
<1>5. ASSUME NEW u, r = Refused(u), Unchanged(u)
      PROVE  r.ok = FALSE /\ Unchanged(r.owner)
  BY <1>5 DEF Refused
<1>6. CASE region.cycle \/ stage = "graph"
  <2>. DEFINE u == [t EXCEPT !.graph = RollbackInstanceRegion(region.graph, region.journal)]
  <2>1. r = Refused(u)
    BY <1>4, <1>6 DEF AfterTopology
  <2>2. Unchanged(u)
    BY <1>1, <1>3 DEF OwnerShape
  <2>. HIDE DEF u
  <2>3. r.ok = FALSE /\ Unchanged(r.owner)
    BY <2>1, <2>2, <1>5
  <2>. QED BY <2>3 DEF r, Answers
<1>7. CASE ~(region.cycle \/ stage = "graph") /\ stage = "rows"
  <2>. DEFINE u(arr, req) == [[t EXCEPT !.graph = RollbackInstanceRegion(g, region.journal)]
                                 EXCEPT !.arr = arr, !.req = req]
  <2>1. PICK arr, req : r = Refused(u(arr, req))
    BY <1>4, <1>7 DEF AfterTopology
  <2>2. Unchanged(u(arr, req))
    BY <1>2, <1>3 DEF OwnerShape
  <2>. HIDE DEF u
  <2>3. r.ok = FALSE /\ Unchanged(r.owner)
    BY <2>1, <2>2, <1>5
  <2>. QED BY <2>3 DEF r, Answers
<1>8. CASE ~(region.cycle \/ stage = "graph") /\ stage # "rows"
  <2>1. /\ r.ok = TRUE
        /\ r.owner.graph = g /\ r.owner.active = TRUE /\ r.owner.prepared = FALSE
        /\ DOMAIN r.owner = DOMAIN t
        /\ r.edit.graph = region.journal
    BY <1>4, <1>8 DEF AfterTopology, OwnerShape
  <2>2. OwnerShape(r.owner)
    BY <2>1, <1>2 DEF OwnerShape
  <2>. QED BY <2>1, <2>2, <1>1, <1>2 DEF r, Answers
<1>. QED BY <1>6, <1>7, <1>8

\* The same with the rows that are synchronized first unless the edit is
\* deferred.
LEMMA ApplyFacts ==
  ASSUME NEW o, NEW t, NEW delta, NEW defer, NEW stage, OwnerShape(t),
         DOMAIN delta \subseteq Ids, t.graph.inst = [i \in Ids |-> t.graph.inst[i]],
         t.active = FALSE, t.prepared = FALSE
  PROVE  Answers(t, delta, ApplyRegionDelta(o, t, delta, defer, stage))
<1>. DEFINE r == ApplyRegionDelta(o, t, delta, defer, stage)
<1>1. ASSUME NEW s, OwnerShape(s), s.graph.inst = t.graph.inst, s.active = FALSE, s.prepared = FALSE
      PROVE  /\ Answers(t, delta, Refused(s))
             /\ Answers(t, delta, ApplyRegionDeltaInner(o, s, delta, defer, stage))
  <2>1. Answers(t, delta, Refused(s))
    BY <1>1 DEF Answers, Refused
  <2>2. s.graph.inst = [i \in Ids |-> s.graph.inst[i]]
    BY <1>1
  <2>3. Answers(s, delta, ApplyRegionDeltaInner(o, s, delta, defer, stage))
    BY <1>1, <2>2, AfterTopologyFacts
  <2>. QED BY <1>1, <2>1, <2>3 DEF Answers
<1>2. ASSUME NEW fails
      PROVE  LET s == SynchronizeRequireds(o, t, fails) IN
             /\ OwnerShape(s) /\ s.graph.inst = t.graph.inst
             /\ s.active = FALSE /\ s.prepared = FALSE
  BY SynchronizeKeeps
<1>3. CASE stage = "sync" /\ ~defer /\ t.required_dirty # {}
  <2>1. r = Refused(SynchronizeRequireds(o, t, TRUE))
    BY <1>3 DEF ApplyRegionDelta
  <2>. QED BY <2>1, <1>1, <1>2
<1>4. CASE ~(stage = "sync" /\ ~defer /\ t.required_dirty # {})
  <2>1. PICK s \in {t, SynchronizeRequireds(o, t, FALSE)} :
            r = ApplyRegionDeltaInner(o, s, delta, defer, stage)
    BY <1>4 DEF ApplyRegionDelta
  <2>2. OwnerShape(s) /\ s.graph.inst = t.graph.inst /\ s.active = FALSE /\ s.prepared = FALSE
    BY <1>2
  <2>. QED BY <2>1, <2>2, <1>1
<1>. QED BY <1>3, <1>4

\* A rollback puts the instances of the journal back and ends the edit, whether
\* or not it reports a failure.
LEMMA RollbackFacts ==
  ASSUME NEW t, NEW e, NEW fails, OwnerShape(t)
  PROVE  IdleOn(Rollback(t, e, fails), Undone(t.graph.inst, e.graph.old_inst))
<1>. DEFINE g == RollbackInstanceRegion(t.graph, e.graph)
            r == Rollback(t, e, fails)
<1>1. "inst" \in DOMAIN g /\ g.inst = Undone(t.graph.inst, e.graph.old_inst)
  BY UndoFacts DEF OwnerShape
<1>2. /\ "inst" \in DOMAIN EnsureTopologicalOrder(g)
      /\ EnsureTopologicalOrder(g).inst = Undone(t.graph.inst, e.graph.old_inst)
  BY <1>1, OrderKeepsInstances
<1>3. /\ r.graph \in {g, EnsureTopologicalOrder(g)}
      /\ r.active = FALSE /\ r.prepared = FALSE
      /\ DOMAIN r = DOMAIN t
  BY DEF Rollback, OwnerShape
<1>. QED BY <1>1, <1>2, <1>3 DEF OwnerShape, IdleOn

-----------------------------------------------------------------------------
(***************************************************************************)
(* The slice of owners.                                                    *)
(***************************************************************************)

\* Every owner has one place in the slice.
LEMMA SlotFacts ==
  ASSUME NEW o \in Owners
  PROVE  /\ Len(OwnerOrder) \in Nat /\ Slot(o) \in 1..Len(OwnerOrder)
         /\ OwnerOrder[Slot(o)] = o
         /\ \A k \in 1..Len(OwnerOrder) : OwnerOrder[k] = o => k = Slot(o)
<1>1. /\ Len(OwnerOrder) \in Nat /\ DOMAIN OwnerOrder = 1..Len(OwnerOrder)
  BY OwnersAssumption, LenProperties
<1>2. \E k \in DOMAIN OwnerOrder : OwnerOrder[k] = o
  BY OwnersAssumption DEF ToSet
<1>3. Slot(o) \in DOMAIN OwnerOrder /\ OwnerOrder[Slot(o)] = o
  BY <1>2 DEF Slot
<1>. QED BY <1>1, <1>3, OwnersAssumption DEF IsInjective

\* The owners with one of the first count edits.
LEMMA EditedFacts ==
  ASSUME NEW edits, NEW count \in Nat, count <= Len(OwnerOrder), DOMAIN edits = 1..count,
         NEW o \in Owners
  PROVE  o \in Edited(edits) <=> Slot(o) <= count
<1>1. \A k \in 1..count : k \in 1..Len(OwnerOrder)
  BY SlotFacts
<1>. QED BY <1>1, SlotFacts DEF Edited

-----------------------------------------------------------------------------
(***************************************************************************)
(* The inductive invariant.                                                *)
(***************************************************************************)

\* New owners are idle on the design.
LEMMA InitIInv == Init => IInv
<1>. SUFFICES ASSUME Init PROVE IInv
  OBVIOUS
<1>1. ASSUME NEW o \in Owners
      PROVE  /\ OwnerShape(timing[o]) /\ timing[o].graph.inst = Design
             /\ timing[o].active = FALSE /\ timing[o].prepared = FALSE
  <2>. DEFINE g == [inst |-> Design, nets |-> NetCount, load |-> InstanceLoads(o, Design, NetCount),
                    order |-> <<>>, plan |-> {}, stale |-> TRUE, generation |-> 0]
  <2>1. "inst" \in DOMAIN g /\ g.inst = Design
    OBVIOUS
  <2>. HIDE DEF g
  <2>2. BuildGraph(o, Design, NetCount) = EnsureTopologicalOrder(g)
    BY DEF BuildGraph, g
  <2>3. /\ "inst" \in DOMAIN BuildGraph(o, Design, NetCount)
        /\ BuildGraph(o, Design, NetCount).inst = Design
    BY <2>1, <2>2, OrderKeepsInstances
  <2>4. timing[o] = NewOwner(o, Design, NetCount)
    BY DEF Init
  <2>. QED BY <2>3, <2>4 DEF NewOwner, OwnerShape
<1>. QED BY <1>1, DesignAssumption DEF Init, IInv, EditExact, Aligned, Open

\* The owners after the loop of apply: the first count have the edit, the others
\* are as they were, and the loop succeeded if all have it.
AppliedTo(delta, a, count) ==
    /\ count \in 0..Len(OwnerOrder)
    /\ a.ok \in BOOLEAN /\ (a.ok <=> count = Len(OwnerOrder))
    /\ DOMAIN a.edits = 1..count
    /\ \A k \in 1..count : a.edits[k].graph.old_inst = [i \in DOMAIN delta |-> mapped[i]]
    /\ a.timing = [o \in Owners |-> a.timing[o]]
    /\ \A o \in Owners :
          /\ OwnerShape(a.timing[o])
          /\ a.timing[o].prepared = FALSE
          /\ Slot(o) <= count => /\ a.timing[o].active = TRUE
                                /\ a.timing[o].graph.inst = Overlay(mapped, delta)
          /\ Slot(o) > count => /\ a.timing[o].active = FALSE
                               /\ a.timing[o].graph.inst = mapped

\* The loop of apply stops at the first owner that refuses.
LEMMA ApplyTimingFacts ==
  ASSUME IInv, edit = NoEdit, NEW delta \in Deltas, NEW defer, NEW failure
  PROVE  \E count \in 0..Len(OwnerOrder) :
             AppliedTo(delta, ApplyTiming(delta, defer, failure), count)
<1>. DEFINE answer == [o \in Owners |->
                         ApplyRegionDelta(o, timing[o], delta, defer,
                                          IF failure.owner = o THEN failure.stage ELSE "none")]
            refusing == {k \in DOMAIN OwnerOrder : ~answer[OwnerOrder[k]].ok}
            edited == IF refusing = {} THEN Len(OwnerOrder) ELSE Min(refusing) - 1
            after == [o \in Owners |-> IF Slot(o) <= edited + 1 THEN answer[o].owner ELSE timing[o]]
            edits == [k \in 1..edited |-> answer[OwnerOrder[k]].edit]
            a == ApplyTiming(delta, defer, failure)
<1>1. a = [ok |-> refusing = {}, timing |-> after, edits |-> edits]
  BY DEF ApplyTiming, UpToRefusal
<1>2. \A o \in Owners : /\ OwnerShape(timing[o]) /\ timing[o].graph.inst = mapped
                        /\ timing[o].active = FALSE /\ timing[o].prepared = FALSE
  BY DEF IInv, Aligned, Open
<1>3. ASSUME NEW o \in Owners PROVE Answers(timing[o], delta, answer[o])
  <2>1. /\ DOMAIN delta \subseteq Ids /\ OwnerShape(timing[o])
        /\ timing[o].graph.inst = [i \in Ids |-> timing[o].graph.inst[i]]
        /\ timing[o].active = FALSE /\ timing[o].prepared = FALSE
    BY <1>2, DesignAssumption DEF IInv
  <2>. QED BY <2>1, ApplyFacts
<1>4. \A o \in Owners :
         /\ answer[o].ok \in BOOLEAN
         /\ OwnerShape(answer[o].owner) /\ answer[o].owner.prepared = FALSE
         /\ answer[o].owner.active = answer[o].ok
         /\ answer[o].owner.graph.inst = IF answer[o].ok THEN Overlay(mapped, delta) ELSE mapped
         /\ answer[o].ok => answer[o].edit.graph.old_inst = [i \in DOMAIN delta |-> mapped[i]]
  BY <1>2, <1>3 DEF Answers
<1>. HIDE DEF answer, a
<1>5. /\ Len(OwnerOrder) \in Nat /\ DOMAIN OwnerOrder = 1..Len(OwnerOrder)
      /\ \A k \in 1..Len(OwnerOrder) : OwnerOrder[k] \in Owners /\ Slot(OwnerOrder[k]) = k
  BY OwnersAssumption, SlotFacts, LenProperties DEF ToSet
<1>6. /\ edited \in 0..Len(OwnerOrder)
      /\ refusing = {} <=> edited = Len(OwnerOrder)
      /\ \A k \in 1..edited : answer[OwnerOrder[k]].ok = TRUE
      /\ refusing # {} => answer[OwnerOrder[edited + 1]].ok = FALSE
  <2>1. CASE refusing = {}
    BY <1>4, <1>5, <2>1
  <2>2. CASE refusing # {}
    <3>1. refusing \in SUBSET Nat /\ refusing \in SUBSET (1..Len(OwnerOrder))
      BY <1>5
    <3>2. Min(refusing) \in refusing /\ \A l \in refusing : Min(refusing) <= l
      BY <2>2, <3>1, LeastNumber DEF Min
    <3>3. edited = Min(refusing) - 1 /\ Min(refusing) \in 1..Len(OwnerOrder)
      BY <2>2, <3>1, <3>2
    <3>4. \A k \in 1..edited : k \in DOMAIN OwnerOrder /\ k \notin refusing
      <4>. SUFFICES ASSUME NEW k \in 1..edited PROVE k \in DOMAIN OwnerOrder /\ k \notin refusing
        OBVIOUS
      <4>. HIDE DEF refusing, edited
      <4>1. k \in 1..Len(OwnerOrder) /\ k < Min(refusing) /\ Min(refusing) \in Int /\ k \in Int
        BY <3>3, <1>5
      <4>2. k \notin refusing
        BY <4>1, <3>2
      <4>. QED BY <4>1, <4>2, <1>5
    <3>5. \A k \in 1..edited : answer[OwnerOrder[k]].ok = TRUE
      BY <3>4, <1>4, <1>5
    <3>6. answer[OwnerOrder[Min(refusing)]].ok = FALSE
      BY <3>2, <3>3, <1>4, <1>5
    <3>7. edited \in 0..Len(OwnerOrder) /\ edited # Len(OwnerOrder) /\ edited + 1 = Min(refusing)
      BY <3>3, <1>5
    <3>. QED BY <2>2, <3>5, <3>6, <3>7
  <2>. QED BY <2>1, <2>2
<1>. HIDE DEF refusing, edited
<1>7. edited \in Nat /\ edited <= Len(OwnerOrder) /\ Len(OwnerOrder) \in Nat
  <2>1. edited \in 0..Len(OwnerOrder) /\ Len(OwnerOrder) \in Nat
    BY <1>5, <1>6
  <2>. QED BY <2>1
<1>8. /\ a.ok \in BOOLEAN /\ (a.ok <=> edited = Len(OwnerOrder)) /\ DOMAIN a.edits = 1..edited
      /\ \A k \in 1..edited : a.edits[k].graph.old_inst = [i \in DOMAIN delta |-> mapped[i]]
      /\ a.timing = [o \in Owners |-> a.timing[o]]
  <2>1. \A k \in 1..edited : k \in 1..Len(OwnerOrder)
    BY <1>7
  <2>. QED BY <2>1, <1>1, <1>4, <1>5, <1>6
<1>9. ASSUME NEW o \in Owners
      PROVE  /\ OwnerShape(a.timing[o]) /\ a.timing[o].prepared = FALSE
             /\ Slot(o) <= edited => /\ a.timing[o].active = TRUE
                                    /\ a.timing[o].graph.inst = Overlay(mapped, delta)
             /\ Slot(o) > edited => /\ a.timing[o].active = FALSE
                                   /\ a.timing[o].graph.inst = mapped
  <2>1. /\ a.timing[o] = IF Slot(o) <= edited + 1 THEN answer[o].owner ELSE timing[o]
        /\ Slot(o) \in 1..Len(OwnerOrder) /\ OwnerOrder[Slot(o)] = o
        /\ edited \in Int /\ Len(OwnerOrder) \in Nat
    BY <1>1, <1>7, SlotFacts
  <2>2. CASE Slot(o) <= edited
    <3>1. answer[o].ok = TRUE /\ a.timing[o] = answer[o].owner /\ ~(Slot(o) > edited)
      BY <1>6, <2>1, <2>2
    <3>. QED BY <3>1, <1>4
  <2>3. CASE Slot(o) = edited + 1
    <3>1. a.timing[o] = answer[o].owner /\ ~(Slot(o) <= edited) /\ edited # Len(OwnerOrder)
      BY <2>1, <2>3
    <3>2. answer[o].ok = FALSE
      BY <3>1, <2>1, <2>3, <1>6
    <3>. QED BY <3>1, <3>2, <1>4
  <2>4. CASE Slot(o) > edited + 1
    <3>1. a.timing[o] = timing[o] /\ ~(Slot(o) <= edited)
      BY <2>1, <2>4
    <3>. QED BY <3>1, <1>2
  <2>5. Slot(o) <= edited \/ Slot(o) = edited + 1 \/ Slot(o) > edited + 1
    BY <2>1
  <2>. QED BY <2>2, <2>3, <2>4, <2>5
<1>10. AppliedTo(delta, a, edited)
  BY <1>6, <1>8, <1>9 DEF AppliedTo
<1>. QED BY <1>6, <1>10 DEF a

\* The first count owners have an edit whose journal leads to inst.
UndoesTo(owners, edits, count, inst) ==
    /\ DOMAIN edits = 1..count
    /\ \A o \in Owners : OwnerShape(owners[o])
    /\ \A o \in Owners : Slot(o) <= count =>
          Undone(owners[o].graph.inst, edits[Slot(o)].graph.old_inst) = inst

\* The owners when those are back and the others untouched.
BackOn(back, owners, count, inst) ==
    /\ back = [o \in Owners |-> back[o]]
    /\ \A o \in Owners :
          /\ Slot(o) <= count => IdleOn(back[o], inst)
          /\ Slot(o) > count => back[o] = owners[o]

\* Rolling back the owners with an edit brings them to the netlist their
\* journals lead to, and leaves the others alone.
LEMMA RollbackTimingFacts ==
  ASSUME NEW owners, NEW edits, NEW failing, NEW inst,
         NEW count \in Nat, count <= Len(OwnerOrder), UndoesTo(owners, edits, count, inst)
  PROVE  BackOn(RollbackTiming(owners, edits, failing), owners, count, inst)
<1>. USE DEF UndoesTo
<1>. DEFINE back == RollbackTiming(owners, edits, failing)
<1>1. back = [o \in Owners |-> back[o]]
  BY DEF RollbackTiming
<1>2. ASSUME NEW o \in Owners
      PROVE  /\ Slot(o) <= count => back[o] = Rollback(owners[o], edits[Slot(o)], o \in failing)
             /\ Slot(o) > count => back[o] = owners[o]
  <2>1. Slot(o) \in Int
    BY SlotFacts
  <2>. QED BY <2>1, EditedFacts DEF RollbackTiming
<1>3. ASSUME NEW o \in Owners, Slot(o) <= count PROVE IdleOn(back[o], inst)
  <2>1. PICK fails : back[o] = Rollback(owners[o], edits[Slot(o)], fails)
    BY <1>2, <1>3
  <2>. HIDE DEF back
  <2>2. IdleOn(back[o], Undone(owners[o].graph.inst, edits[Slot(o)].graph.old_inst))
    BY <2>1, RollbackFacts
  <2>. QED BY <2>2, <1>3
<1>. HIDE DEF back
<1>. QED BY <1>1, <1>2, <1>3 DEF BackOn, back

\* Outside a transaction nothing is open.
LEMMA NotOpen == ASSUME edit = NoEdit PROVE ~Open
BY DEF Open

\* A begun transaction is not "none".
LEMMA EditIsOpen ==
  ASSUME NEW edits, NEW inst
  PROVE  [timing |-> edits, mapped |-> inst] # NoEdit
<1>1. /\ DOMAIN [timing |-> edits, mapped |-> inst] = {"timing", "mapped"}
      /\ DOMAIN NoEdit = {"timing"}
  BY DEF NoEdit
<1>. QED BY <1>1

\* The netlist without a transaction, every owner on it, is the invariant.
LEMMA ClosedIInv ==
  ASSUME edit' = NoEdit, mapped' = [i \in Ids |-> mapped'[i]],
         timing' = [o \in Owners |-> timing'[o]],
         \A o \in Owners : IdleOn(timing'[o], mapped')
  PROVE  IInv'
BY DEF IInv, EditExact, Aligned, Open, IdleOn

\* A transaction begins, or every owner that took part is back.
LEMMA BeginStep ==
  ASSUME IInv, NEW delta \in Deltas, NEW defer, NEW failure, Begin(delta, defer, failure)
  PROVE  IInv'
<1>1. edit = NoEdit /\ DOMAIN delta \subseteq Ids /\ mapped = [i \in Ids |-> mapped[i]]
  BY DesignAssumption DEF Begin, IInv
<1>2. \A o \in Owners : /\ OwnerShape(timing[o]) /\ timing[o].graph.inst = mapped
                        /\ timing[o].active = FALSE /\ timing[o].prepared = FALSE
  BY <1>1, NotOpen DEF IInv, Aligned
<1>3. CASE delta = <<>>
  <2>1. Applied(delta, [ok |-> TRUE, timing |-> timing, edits |-> <<>>])
    BY <1>3 DEF Begin
  <2>2. /\ mapped' = Overlay(mapped, delta) /\ timing' = timing
        /\ edit' = [timing |-> <<>>, mapped |-> mapped]
    BY <2>1 DEF Applied
  <2>3. mapped' = mapped
    BY <1>1, <1>3, <2>2 DEF Overlay
  <2>4. edit'.timing = <<>> /\ edit'.mapped = mapped
    BY <2>2
  <2>5. ~Open' /\ EditExact'
    BY <1>1, <2>3, <2>4 DEF Open, EditExact
  <2>6. Aligned'
    BY <1>2, <2>2, <2>3, <2>5 DEF Aligned
  <2>. QED BY <2>2, <2>3, <2>5, <2>6, <1>1, <1>2 DEF IInv
<1>4. CASE delta # <<>>
  <2>. DEFINE a == ApplyTiming(delta, defer, failure)
  <2>1. PICK count \in 0..Len(OwnerOrder) : AppliedTo(delta, a, count)
    BY <1>1, ApplyTimingFacts
  <2>2. Applied(delta, a)
    BY <1>4 DEF Begin
  <2>. HIDE DEF a
  <2>3. Undone(Overlay(mapped, delta), [i \in DOMAIN delta |-> mapped[i]]) = mapped
    BY <1>1, DeltaUndone
  <2>4. CASE a.ok
    <3>1. /\ mapped' = Overlay(mapped, delta) /\ timing' = a.timing
          /\ edit' = [timing |-> a.edits, mapped |-> mapped]
      BY <2>2, <2>4 DEF Applied
    <3>2. /\ count = Len(OwnerOrder) /\ DOMAIN a.edits = 1..Len(OwnerOrder)
          /\ \A k \in DOMAIN a.edits : a.edits[k].graph.old_inst = [i \in DOMAIN delta |-> mapped[i]]
      BY <2>1, <2>4 DEF AppliedTo
    <3>3. \A o \in Owners : /\ OwnerShape(timing'[o]) /\ timing'[o].graph.inst = mapped'
                            /\ timing'[o].active = TRUE /\ timing'[o].prepared = FALSE
      BY <2>1, <3>1, <3>2, SlotFacts DEF AppliedTo
    <3>4. edit'.timing = a.edits /\ edit'.mapped = mapped /\ edit' # NoEdit
      BY <3>1, EditIsOpen
    <3>5. \A o \in Owners : a.edits # <<>>
      BY <3>2, SlotFacts
    <3>6. EditExact'
      <4>1. edit'.timing = <<>> /\ Owners # {} => edit'.mapped = mapped'
        BY <3>4, <3>5
      <4>2. /\ edit'.mapped = [i \in Ids |-> edit'.mapped[i]]
            /\ DOMAIN edit'.timing = 1..Len(OwnerOrder)
            /\ \A k \in DOMAIN edit'.timing :
                  Undone(mapped', edit'.timing[k].graph.old_inst) = edit'.mapped
        BY <1>1, <2>3, <3>1, <3>2, <3>4
      <4>. QED BY <4>1, <4>2 DEF EditExact
    <3>7. Aligned'
      BY <3>3, <3>4, <3>5 DEF Aligned, Open
    <3>8. mapped' = [i \in Ids |-> mapped'[i]]
      BY <3>1 DEF Overlay
    <3>9. timing' = [o \in Owners |-> timing'[o]]
      BY <2>1, <3>1 DEF AppliedTo
    <3>. QED BY <3>3, <3>6, <3>7, <3>8, <3>9 DEF IInv
  <2>5. CASE ~a.ok
    <3>1. PICK failing : timing' = RollbackTiming(a.timing, a.edits, failing)
      BY <2>2, <2>5 DEF Applied
    <3>2. mapped' = mapped /\ edit' = NoEdit
      BY <1>1, <2>2, <2>5 DEF Applied
    <3>3. count \in Nat /\ count <= Len(OwnerOrder)
      BY <2>1, OwnersAssumption, LenProperties
    <3>4. \A o \in Owners : /\ Slot(o) \in 1..Len(OwnerOrder) /\ Slot(o) \in Int
                            /\ Slot(o) <= count => Slot(o) \in 1..count
      BY <3>3, SlotFacts
    <3>5. UndoesTo(a.timing, a.edits, count, mapped)
      BY <2>1, <2>3, <3>4 DEF AppliedTo, UndoesTo
    <3>6. BackOn(timing', a.timing, count, mapped)
      BY <3>1, <3>3, <3>5, RollbackTimingFacts
    <3>7. \A o \in Owners : Slot(o) > count => IdleOn(a.timing[o], mapped)
      BY <2>1 DEF AppliedTo, IdleOn
    <3>8. \A o \in Owners : IdleOn(timing'[o], mapped')
      <4>. SUFFICES ASSUME NEW o \in Owners PROVE IdleOn(timing'[o], mapped')
        OBVIOUS
      <4>1. Slot(o) <= count \/ Slot(o) > count
        BY <3>3, <3>4
      <4>. QED BY <4>1, <3>2, <3>6, <3>7 DEF BackOn
    <3>. QED BY <1>1, <3>2, <3>6, <3>8, ClosedIInv DEF BackOn
  <2>. QED BY <2>4, <2>5
<1>. QED BY <1>3, <1>4

\* A rollback, explicit or of a commit that failed after some preparations,
\* brings every owner and the netlist back to where the transaction began.
LEMMA RollbackStep ==
  ASSUME IInv, edit # NoEdit, NEW owners, NEW failing, RollbackApplied(owners, failing),
         \A o \in Owners : OwnerShape(owners[o]) /\ owners[o].graph.inst = mapped,
         edit.timing = <<>> => \A o \in Owners : owners[o] = timing[o]
  PROVE  IInv'
<1>1. /\ timing' = RollbackTiming(owners, edit.timing, failing)
      /\ mapped' = edit.mapped /\ edit' = NoEdit
  BY DEF RollbackApplied
<1>2. edit.mapped = [i \in Ids |-> edit.mapped[i]]
  BY DEF IInv, EditExact
<1>3. /\ Len(OwnerOrder) \in Nat /\ 0 <= Len(OwnerOrder)
      /\ \A o \in Owners : Slot(o) \in 1..Len(OwnerOrder) /\ Slot(o) \in Int
                           /\ Slot(o) > 0 /\ Slot(o) <= Len(OwnerOrder)
  <2>1. Len(OwnerOrder) \in Nat
    BY OwnersAssumption, LenProperties
  <2>. QED BY <2>1, SlotFacts
<1>4. CASE edit.timing = <<>>
  <2>1. UndoesTo(owners, edit.timing, 0, edit.mapped)
    <3>1. DOMAIN edit.timing = 1..0
      BY <1>4
    <3>2. \A o \in Owners : ~(Slot(o) <= 0)
      BY <1>3
    <3>. QED BY <3>1, <3>2 DEF UndoesTo
  <2>2. BackOn(timing', owners, 0, edit.mapped)
    BY <1>1, <1>3, <2>1, RollbackTimingFacts
  <2>3. \A o \in Owners : IdleOn(timing[o], mapped)
    BY <1>4 DEF IInv, Aligned, Open, IdleOn
  <2>4. \A o \in Owners : mapped = edit.mapped
    BY <1>4 DEF IInv, EditExact
  <2>5. \A o \in Owners : IdleOn(timing'[o], mapped')
    BY <1>1, <1>3, <1>4, <2>2, <2>3, <2>4 DEF BackOn
  <2>. QED BY <1>1, <1>2, <2>2, <2>5, ClosedIInv DEF BackOn
<1>5. CASE edit.timing # <<>>
  <2>1. UndoesTo(owners, edit.timing, Len(OwnerOrder), edit.mapped)
    BY <1>3, <1>5 DEF UndoesTo, IInv, EditExact
  <2>2. BackOn(timing', owners, Len(OwnerOrder), edit.mapped)
    BY <1>1, <1>3, <2>1, RollbackTimingFacts
  <2>3. \A o \in Owners : IdleOn(timing'[o], mapped')
    BY <1>1, <1>3, <2>2 DEF BackOn
  <2>. QED BY <1>1, <1>2, <2>2, <2>3, ClosedIInv DEF BackOn
<1>. QED BY <1>4, <1>5

\* An explicit rollback.
LEMMA RollbackEditStep == ASSUME IInv, NEW failing, RollbackEdit(failing) PROVE IInv'
<1>1. edit # NoEdit /\ RollbackApplied(timing, failing)
  BY DEF RollbackEdit
<1>2. \A o \in Owners : OwnerShape(timing[o]) /\ timing[o].graph.inst = mapped
  BY DEF IInv, Aligned
<1>. QED BY <1>1, <1>2, RollbackStep

\* Preparing a commit touches a flag only.
LEMMA PreparedFacts ==
  ASSUME IInv, NEW k
  PROVE  /\ PreparedUpTo(k) = [o \in Owners |-> PreparedUpTo(k)[o]]
         /\ \A o \in Owners : /\ OwnerShape(PreparedUpTo(k)[o])
                              /\ PreparedUpTo(k)[o].graph.inst = mapped
                              /\ PreparedUpTo(k)[o].active = timing[o].active
<1>1. ASSUME NEW o \in Owners
      PROVE  /\ OwnerShape(PrepareCommit(timing[o]))
             /\ PrepareCommit(timing[o]).graph.inst = mapped
             /\ PrepareCommit(timing[o]).active = timing[o].active
  BY DEF IInv, Aligned, OwnerShape, PrepareCommit
<1>2. \A o \in Owners : OwnerShape(timing[o]) /\ timing[o].graph.inst = mapped
  BY DEF IInv, Aligned
<1>3. \A o \in Owners : PreparedUpTo(k)[o] \in {timing[o], PrepareCommit(timing[o])}
  BY DEF PreparedUpTo
<1>4. PreparedUpTo(k) = [o \in Owners |-> PreparedUpTo(k)[o]]
  BY DEF PreparedUpTo
<1>. QED BY <1>1, <1>2, <1>3, <1>4

\* A commit whose preparation or publication fails.
LEMMA CommitFailsStep ==
  ASSUME IInv, NEW k \in 0..Len(edit.timing), NEW failing, CommitFails(k, failing)
  PROVE  IInv'
<1>1. edit # NoEdit /\ RollbackApplied(PreparedUpTo(k), failing)
  BY DEF CommitFails
<1>2. \A o \in Owners : OwnerShape(PreparedUpTo(k)[o]) /\ PreparedUpTo(k)[o].graph.inst = mapped
  BY PreparedFacts
<1>3. ASSUME edit.timing = <<>> PROVE \A o \in Owners : PreparedUpTo(k)[o] = timing[o]
  <2>1. k = 0
    BY <1>3
  <2>. QED BY <2>1 DEF PreparedUpTo
<1>. QED BY <1>1, <1>2, <1>3, RollbackStep

\* A commit ends the edits and keeps what they did.
LEMMA CommitStep == ASSUME IInv, Commit PROVE IInv'
<1>. DEFINE prepared == PreparedUpTo(Len(edit.timing))
<1>1. /\ edit # NoEdit /\ edit' = NoEdit /\ mapped' = mapped
      /\ timing' = [o \in Owners |-> IF o \in Edited(edit.timing)
                                     THEN CommitPrepared(prepared[o]) ELSE prepared[o]]
  BY DEF Commit
<1>2. /\ mapped = [i \in Ids |-> mapped[i]]
      /\ timing' = [o \in Owners |-> timing'[o]]
  BY <1>1 DEF IInv
<1>3. \A o \in Owners : OwnerShape(prepared[o]) /\ prepared[o].graph.inst = mapped
  BY PreparedFacts
<1>4. CASE edit.timing = <<>>
  <2>1. \A o \in Owners : IdleOn(timing[o], mapped)
    BY <1>4 DEF IInv, Aligned, Open, IdleOn
  <2>2. \A o \in Owners : prepared[o] = timing[o] /\ o \notin Edited(edit.timing)
    <3>1. Len(edit.timing) = 0 /\ DOMAIN edit.timing = {}
      BY <1>4
    <3>. QED BY <3>1 DEF PreparedUpTo, Edited
  <2>3. \A o \in Owners : timing'[o] = timing[o]
    BY <1>1, <2>2
  <2>. QED BY <1>1, <1>2, <2>1, <2>3, ClosedIInv
<1>5. CASE edit.timing # <<>>
  <2>1. DOMAIN edit.timing = 1..Len(OwnerOrder)
    BY <1>1, <1>5 DEF IInv, EditExact
  <2>2. ASSUME NEW o \in Owners PROVE o \in Edited(edit.timing)
    BY <2>1, SlotFacts DEF Edited
  <2>. HIDE DEF prepared
  <2>3. ASSUME NEW o \in Owners PROVE IdleOn(CommitPrepared(prepared[o]), mapped)
    <3>1. OwnerShape(prepared[o]) /\ prepared[o].graph.inst = mapped
      BY <1>3
    <3>. QED BY <3>1 DEF CommitPrepared, OwnerShape, IdleOn
  <2>4. \A o \in Owners : timing'[o] = CommitPrepared(prepared[o])
    BY <1>1, <2>2
  <2>. QED BY <1>1, <1>2, <2>3, <2>4, ClosedIInv
<1>. QED BY <1>4, <1>5

\* A step that changes no instance and no flag of an owner.
LEMMA QuietStep ==
  ASSUME IInv, UNCHANGED <<mapped, edit>>, timing' = [o \in Owners |-> timing'[o]],
         \A o \in Owners : /\ OwnerShape(timing'[o])
                           /\ timing'[o].graph.inst = timing[o].graph.inst
                           /\ timing'[o].active = timing[o].active
                           /\ timing'[o].prepared = timing[o].prepared
  PROVE  IInv'
<1>1. Aligned' /\ EditExact'
  BY DEF IInv, Aligned, EditExact, Open
<1>. QED BY <1>1 DEF IInv

\* A frontier query brings one owner's required rows up to date.
LEMMA QueryFrontierStep == ASSUME IInv, NEW o \in Owners, QueryFrontier(o) PROVE IInv'
<1>1. PICK fails : timing' = [timing EXCEPT ![o] = SynchronizeRequireds(o, @, fails)]
  BY DEF QueryFrontier
<1>2. UNCHANGED <<mapped, edit>>
  BY DEF QueryFrontier
<1>. DEFINE s == SynchronizeRequireds(o, timing[o], fails)
<1>3. \A p \in Owners : OwnerShape(timing[p])
  BY DEF IInv
<1>4. /\ OwnerShape(s) /\ s.graph.inst = timing[o].graph.inst
      /\ s.active = timing[o].active /\ s.prepared = timing[o].prepared
  BY <1>3, SynchronizeKeeps
<1>5. timing = [p \in Owners |-> timing[p]]
  BY DEF IInv
<1>. HIDE DEF s
<1>6. /\ timing' = [p \in Owners |-> timing'[p]]
      /\ \A p \in Owners : timing'[p] = IF p = o THEN s ELSE timing[p]
  BY <1>1, <1>5 DEF s
<1>. QED BY <1>2, <1>3, <1>4, <1>6, QuietStep

\* A snapshot query fills one owner's cache.
LEMMA QuerySnapshotStep == ASSUME IInv, NEW o \in Owners, QuerySnapshot(o) PROVE IInv'
<1>1. PICK snapshot : timing' = [timing EXCEPT ![o].snapshot = snapshot]
  BY DEF QuerySnapshot
<1>2. UNCHANGED <<mapped, edit>>
  BY DEF QuerySnapshot
<1>. DEFINE s == [timing[o] EXCEPT !.snapshot = snapshot]
<1>3. \A p \in Owners : OwnerShape(timing[p])
  BY DEF IInv
<1>4. /\ OwnerShape(s) /\ s.graph.inst = timing[o].graph.inst
      /\ s.active = timing[o].active /\ s.prepared = timing[o].prepared
  BY <1>3 DEF OwnerShape
<1>5. timing = [p \in Owners |-> timing[p]]
  BY DEF IInv
<1>6. /\ timing' = [p \in Owners |-> timing'[p]]
      /\ \A p \in Owners : timing'[p] = IF p = o THEN s ELSE timing[p]
  BY <1>1, <1>5
<1>. HIDE DEF s
<1>. QED BY <1>2, <1>3, <1>4, <1>6, QuietStep

\* Every step keeps the invariant.
LEMMA NextIInv == IInv /\ [Next]_vars => IInv'
<1>. SUFFICES ASSUME IInv, [Next]_vars PROVE IInv'
  OBVIOUS
<1>1. CASE UNCHANGED vars
  BY <1>1 DEF vars, IInv, EditExact, Aligned, Open
<1>2. ASSUME NEW delta \in Deltas, NEW defer \in BOOLEAN, NEW failure \in Failures,
             Begin(delta, defer, failure)
      PROVE  IInv'
  BY <1>2, BeginStep
<1>3. ASSUME NEW failing \in SUBSET Owners,
             RollbackEdit(failing) \/ \E k \in 0..Len(edit.timing) : CommitFails(k, failing)
      PROVE  IInv'
  BY <1>3, RollbackEditStep, CommitFailsStep
<1>4. CASE Commit
  BY <1>4, CommitStep
<1>5. ASSUME NEW o \in Owners, QueryFrontier(o) \/ QuerySnapshot(o) PROVE IInv'
  BY <1>5, QueryFrontierStep, QuerySnapshotStep
<1>. QED BY <1>1, <1>2, <1>3, <1>4, <1>5 DEF Next

\* The invariant holds at all times.
LEMMA Invariance == Spec => []IInv
BY InitIInv, NextIInv, PTL DEF Spec

\* For any number of timing views, whatever stage of whatever owner fails and
\* whether a transaction is committed, rolled back or refused, every view times
\* the netlist as it is and none is left inside an edit.
THEOREM TimingViewsAligned == Spec => []ViewsAligned
<1>1. IInv => ViewsAligned
  <2>. SUFFICES ASSUME IInv, NEW o \in Owners
                PROVE  /\ timing[o].graph.inst = mapped
                       /\ timing[o].active = (edit # NoEdit /\ edit.timing # <<>>)
                       /\ ~timing[o].prepared
    BY DEF ViewsAligned
  <2>1. timing[o].graph.inst = mapped /\ timing[o].prepared = FALSE
    BY DEF IInv, Aligned
  <2>2. /\ Open => timing[o].active = TRUE
        /\ ~Open => timing[o].active = FALSE
    BY DEF IInv, Aligned
  <2>3. timing[o].active = (edit # NoEdit /\ edit.timing # <<>>)
    BY <2>2 DEF Open
  <2>. QED BY <2>1, <2>3
<1>. QED BY <1>1, Invariance, PTL

-----------------------------------------------------------------------------
(***************************************************************************)
(* Finite sets.                                                            *)
(***************************************************************************)

\* Among finitely many numbers there is a greatest.
LEMMA GreatestAt ==
  ASSUME NEW n \in Nat, n # 0, NEW f \in [1..n -> Int]
  PROVE  \E m \in 1..n : \A j \in 1..n : f[j] <= f[m]
<1>. DEFINE S == {k \in 0..n : k # 0 => \E m \in 1..k : \A j \in 1..k : f[j] <= f[m]}
<1>1. 0 \in S
  OBVIOUS
<1>2. ASSUME NEW k \in 1..n, k - 1 \in S PROVE k \in S
  <2>1. CASE k = 1
    BY <2>1
  <2>2. CASE k # 1
    <3>1. PICK m \in 1..(k - 1) : \A j \in 1..(k - 1) : f[j] <= f[m]
      BY <1>2, <2>2
    <3>2. f[m] \in Int /\ f[k] \in Int /\ \A j \in 1..(k - 1) : f[j] \in Int
      OBVIOUS
    <3>3. CASE f[k] <= f[m]
      <4>1. \A j \in 1..k : f[j] <= f[m]
        BY <3>1, <3>3
      <4>. QED BY <4>1
    <3>4. CASE ~(f[k] <= f[m])
      <4>1. \A j \in 1..k : f[j] <= f[k]
        BY <3>1, <3>2, <3>4
      <4>. QED BY <4>1
    <3>. QED BY <3>3, <3>4
  <2>. QED BY <2>1, <2>2
<1>3. 0..n \subseteq S
  <2>. HIDE DEF S
  <2>. QED BY <1>1, <1>2, PositionInduction
<1>4. n \in S
  <2>. HIDE DEF S
  <2>. QED BY <1>3
<1>. QED BY <1>4

\* The values of a function on a finite set are finitely many.
LEMMA FiniteImage ==
  ASSUME NEW S, IsFiniteSet(S), NEW f, DOMAIN f = S, f = [x \in S |-> f[x]]
  PROVE  IsFiniteSet({f[x] : x \in S})
<1>. DEFINE T == {f[x] : x \in S}
<1>1. f \in Surjection(S, T)
  BY DEF Surjection
<1>. QED BY <1>1, FS_Surjection

\* An arrival row.
Row == [delay : Int, transition : Int]

\* Among finitely many rows there is a latest.
LEMMA LatestExists ==
  ASSUME NEW S \in SUBSET Row, IsFiniteSet(S), S # {}
  PROVE  \E c \in S : \A d \in S : d.delay <= c.delay
<1>. DEFINE n == Cardinality(S)
<1>1. n \in Nat /\ ExistsBijection(1..n, S)
  BY FS_CardinalityType
<1>2. PICK f \in Bijection(1..n, S) : TRUE
  BY <1>1 DEF ExistsBijection
<1>. HIDE DEF n
<1>3. f \in [1..n -> S] /\ \A s \in S : \E k \in 1..n : f[k] = s
  BY <1>2 DEF Bijection, Injection, Surjection
<1>4. n # 0
  BY <1>3
<1>. DEFINE h == [k \in 1..n |-> f[k].delay]
<1>5. h \in [1..n -> Int]
  BY <1>3 DEF Row
<1>6. PICK m \in 1..n : \A j \in 1..n : h[j] <= h[m]
  <2>. HIDE DEF h
  <2>. QED BY <1>1, <1>4, <1>5, GreatestAt
<1>7. \A j \in 1..n : f[j].delay <= f[m].delay
  BY <1>6
<1>. QED BY <1>3, <1>7

-----------------------------------------------------------------------------
(***************************************************************************)
(* Types of a timing graph and its rows.                                   *)
(***************************************************************************)

GraphShape(g) ==
    g = [inst |-> g.inst, nets |-> g.nets, load |-> g.load, order |-> g.order,
         plan |-> g.plan, stale |-> g.stale, generation |-> g.generation]

\* A netlist whose instances are known and lie on the given nets.
InstType(inst, count) ==
    /\ inst \in [Ids -> Instances]
    /\ \A i \in Ids : InstanceNets(inst[i]) \subseteq 1..count

\* The type of a graph.
GraphType(g) ==
    /\ GraphShape(g)
    /\ g.nets \in Nat /\ g.load \in [1..g.nets -> Int]
    /\ g.stale \in BOOLEAN /\ g.generation \in Nat
    /\ InstType(g.inst, g.nets)

\* The type of its arrival rows.
RowsType(g, arr) == arr \in [1..g.nets -> Row]

\* An instance that is there has a cell and the cell's pins.
LEMMA InstanceFacts ==
  ASSUME NEW x \in Instances, x # Absent
  PROVE  /\ x.cell \in DOMAIN Kind /\ x.ins \in Seq(Nat \ {0}) /\ x.out \in Nat \ {0}
         /\ InstanceNets(x) = ToSet(x.ins) \cup {x.out}
         /\ IsFiniteSet(ToSet(x.ins)) /\ ToSet(x.ins) \in SUBSET (Nat \ {0})
         /\ IsFiniteSet(DOMAIN x.ins) /\ Len(x.ins) \in Nat /\ DOMAIN x.ins = 1..Len(x.ins)
<1>1. x.cell \in DOMAIN Kind /\ x.ins \in Seq(Nat \ {0}) /\ x.out \in Nat \ {0}
  BY DesignAssumption
<1>2. Len(x.ins) \in Nat /\ DOMAIN x.ins = 1..Len(x.ins) /\ IsFiniteSet(1..Len(x.ins))
  <2>1. Len(x.ins) \in Nat /\ DOMAIN x.ins = 1..Len(x.ins)
    BY <1>1
  <2>2. 1 \in Int /\ Len(x.ins) \in Int
    BY <2>1
  <2>. QED BY <2>1, <2>2, FS_Interval
<1>3. x.ins = [k \in DOMAIN x.ins |-> x.ins[k]]
  BY <1>1
<1>4. IsFiniteSet({x.ins[k] : k \in DOMAIN x.ins})
  <2>. DEFINE S == DOMAIN x.ins
              f == x.ins
  <2>1. IsFiniteSet(S) /\ DOMAIN f = S /\ f = [k \in S |-> f[k]]
    BY <1>2, <1>3
  <2>. HIDE DEF S, f
  <2>2. IsFiniteSet({f[k] : k \in S})
    BY <2>1, FiniteImage
  <2>. QED BY <2>2 DEF S, f
<1>5. ToSet(x.ins) = {x.ins[k] : k \in DOMAIN x.ins} /\ ToSet(x.ins) \in SUBSET (Nat \ {0})
  BY <1>1, <1>2, ToSetByPosition DEF ToSet
<1>. QED BY <1>1, <1>2, <1>4, <1>5 DEF InstanceNets

\* The gates and flops of a graph are present instances.
LEMMA PresentFacts ==
  ASSUME NEW g, NEW count, InstType(g.inst, count), NEW i \in Present(g)
  PROVE  /\ i \in Ids /\ g.inst[i] \in Instances /\ g.inst[i] # Absent
         /\ ToSet(g.inst[i].ins) \subseteq 1..count /\ g.inst[i].out \in 1..count
<1>1. i \in Ids /\ g.inst[i] \in Instances /\ g.inst[i] # Absent
  BY DEF Present, InstType
<1>2. InstanceNets(g.inst[i]) \subseteq 1..count
  BY <1>1 DEF InstType
<1>. QED BY <1>1, <1>2, InstanceFacts

\* An edge of the graph leads from an input to the output of a gate.
LEMMA EdgeFacts ==
  ASSUME NEW g, NEW count, InstType(g.inst, count)
  PROVE  /\ Edges(g) \in SUBSET ((1..count) \X (1..count))
         /\ \A a, b : <<a, b>> \in Edges(g) <=>
                \E i \in Gates(g) : a \in ToSet(g.inst[i].ins) /\ b = g.inst[i].out
<1>1. \A i \in Gates(g) : ToSet(g.inst[i].ins) \subseteq 1..count /\ g.inst[i].out \in 1..count
  BY PresentFacts DEF Gates
<1>2. \A a, b : <<a, b>> \in Edges(g) <=>
                \E i \in Gates(g) : a \in ToSet(g.inst[i].ins) /\ b = g.inst[i].out
  BY DEF Edges
<1>3. ASSUME NEW e \in Edges(g) PROVE e \in (1..count) \X (1..count)
  <2>1. PICK i \in Gates(g) : e \in ToSet(g.inst[i].ins) \X {g.inst[i].out}
    BY DEF Edges
  <2>. QED BY <1>1, <2>1
<1>. QED BY <1>2, <1>3

-----------------------------------------------------------------------------
(***************************************************************************)
(* One arrival row.                                                        *)
(***************************************************************************)

\* What competes for the row of a net.
DriversOf(g, n) == {i \in Gates(g) : g.inst[i].out = n}
LaunchersOf(g, n) == {i \in Flops(g) : g.inst[i].out = n}
Through(o, g, arr, n, i) ==
    {[delay |-> arr[f].delay + WireDelay(o, g, f) + ArcDelay(o, g, i, arr[f]),
      transition |-> OutputTransition(o, g, n)] : f \in {m \in ToSet(g.inst[i].ins) : arr[m] # NoRow}}
Candidates(o, g, arr, n) ==
    Launches(o, g, n) \cup UNION {Through(o, g, arr, n, i) : i \in DriversOf(g, n)}

LatestOf(S) == IF S = {} THEN NoRow ELSE CHOOSE c \in S : \A d \in S : d.delay <= c.delay

\* The row of a net is the latest candidate.
LEMMA SlotsAreLatest ==
  ASSUME NEW o, NEW g, NEW arr, NEW n
  PROVE  PropagateSlots(o, g, arr, n) = LatestOf(Candidates(o, g, arr, n))
BY DEF PropagateSlots, Candidates, Through, DriversOf, LatestOf

\* An arc's delay is a number.
LEMMA ArcFacts ==
  ASSUME NEW o \in Owners, NEW g, GraphType(g), NEW i \in Present(g), NEW row,
         row.transition \in Int
  PROVE  ArcDelay(o, g, i, row) \in Int
<1>1. g.inst[i] \in Instances /\ g.inst[i] # Absent /\ g.inst[i].out \in 1..g.nets
  BY PresentFacts DEF GraphType
<1>2. g.inst[i].cell \in DOMAIN Kind
  BY <1>1, InstanceFacts
<1>3. Library[o][g.inst[i].cell].delay \in Int /\ Slope[o] \in Int
  BY <1>2, LibraryAssumption
<1>4. g.load[g.inst[i].out] \in Int
  BY <1>1 DEF GraphType
<1>5. Slope[o] * g.load[g.inst[i].out] \in Int
  BY <1>3, <1>4
<1>. QED BY <1>3, <1>5 DEF ArcDelay

\* So is the transition of a net.
LEMMA TransitionFacts ==
  ASSUME NEW o \in Owners, NEW g, GraphType(g), NEW n \in 1..g.nets
  PROVE  OutputTransition(o, g, n) \in Int
<1>1. g.load[n] \in Int /\ Slope[o] \in Int
  BY LibraryAssumption DEF GraphType
<1>. QED BY <1>1 DEF OutputTransition

\* And the delay of its wire.
LEMMA WireFacts ==
  ASSUME NEW o \in Owners, NEW g, GraphType(g), NEW n \in 1..g.nets
  PROVE  WireDelay(o, g, n) \in Int
<1>1. g.load[n] \in Int
  BY DEF GraphType
<1>2. NetResistance(o, n) \in Int
  BY LibraryAssumption DEF NetResistance
<1>. QED BY <1>1, <1>2 DEF WireDelay

\* The candidates are finitely many rows.
LEMMA CandidateFacts ==
  ASSUME NEW o \in Owners, NEW g, GraphType(g), NEW arr, RowsType(g, arr), NEW n \in 1..g.nets
  PROVE  Candidates(o, g, arr, n) \in SUBSET Row /\ IsFiniteSet(Candidates(o, g, arr, n))
<1>1. OutputTransition(o, g, n) \in Int
  BY TransitionFacts
<1>. DEFINE port == {[delay |-> 0, transition |-> 0] : p \in InputNets \cap {n}}
            launch == [i \in LaunchersOf(g, n) |->
                         [delay |-> ArcDelay(o, g, i, [transition |-> 0]),
                          transition |-> OutputTransition(o, g, n)]]
<1>2. port \in SUBSET Row /\ IsFiniteSet(port)
  <2>1. port \in SUBSET {[delay |-> 0, transition |-> 0]}
    OBVIOUS
  <2>2. IsFiniteSet({[delay |-> 0, transition |-> 0]})
    BY FS_Singleton
  <2>3. [delay |-> 0, transition |-> 0] \in Row
    BY DEF Row
  <2>. HIDE DEF port
  <2>. QED BY <2>1, <2>2, <2>3, FS_Subset
<1>3. LaunchersOf(g, n) \in SUBSET Ids /\ DriversOf(g, n) \in SUBSET Ids
  BY DEF LaunchersOf, DriversOf, Flops, Gates, Present
<1>4. IsFiniteSet(LaunchersOf(g, n)) /\ IsFiniteSet(DriversOf(g, n))
  BY <1>3, DesignAssumption, FS_Subset
<1>5. ASSUME NEW i \in LaunchersOf(g, n) PROVE launch[i] \in Row
  <2>1. i \in Present(g)
    BY DEF LaunchersOf, Flops
  <2>2. [transition |-> 0].transition \in Int
    OBVIOUS
  <2>3. ArcDelay(o, g, i, [transition |-> 0]) \in Int
    BY <2>1, <2>2, ArcFacts
  <2>. QED BY <1>1, <2>3 DEF Row
<1>6. /\ {launch[i] : i \in LaunchersOf(g, n)} \in SUBSET Row
      /\ IsFiniteSet({launch[i] : i \in LaunchersOf(g, n)})
  <2>1. DOMAIN launch = LaunchersOf(g, n) /\ launch = [i \in LaunchersOf(g, n) |-> launch[i]]
    OBVIOUS
  <2>. HIDE DEF launch
  <2>. QED BY <1>4, <1>5, <2>1, FiniteImage
<1>7. Launches(o, g, n) = port \cup {launch[i] : i \in LaunchersOf(g, n)}
  BY DEF Launches, LaunchersOf
<1>8. Launches(o, g, n) \in SUBSET Row /\ IsFiniteSet(Launches(o, g, n))
  <2>. HIDE DEF port, launch
  <2>. QED BY <1>2, <1>6, <1>7, FS_Union
<1>9. ASSUME NEW i \in DriversOf(g, n)
      PROVE  Through(o, g, arr, n, i) \in SUBSET Row /\ IsFiniteSet(Through(o, g, arr, n, i))
  <2>. DEFINE from == {m \in ToSet(g.inst[i].ins) : arr[m] # NoRow}
              row == [f \in from |-> [delay |-> arr[f].delay + WireDelay(o, g, f)
                                                + ArcDelay(o, g, i, arr[f]),
                                      transition |-> OutputTransition(o, g, n)]]
  <2>1. i \in Present(g)
    BY DEF DriversOf, Gates
  <2>2. g.inst[i] \in Instances /\ g.inst[i] # Absent /\ ToSet(g.inst[i].ins) \subseteq 1..g.nets
    BY <2>1, PresentFacts DEF GraphType
  <2>3. IsFiniteSet(ToSet(g.inst[i].ins)) /\ from \in SUBSET ToSet(g.inst[i].ins)
    BY <2>2, InstanceFacts
  <2>4. IsFiniteSet(from)
    <3>. HIDE DEF from
    <3>. QED BY <2>3, FS_Subset
  <2>5. ASSUME NEW f \in from PROVE row[f] \in Row
    <3>1. arr[f] \in Row
      BY <2>2 DEF RowsType
    <3>2. arr[f].delay \in Int /\ arr[f].transition \in Int
      BY <3>1 DEF Row
    <3>3. ArcDelay(o, g, i, arr[f]) \in Int
      BY <2>1, <3>2, ArcFacts
    <3>4. WireDelay(o, g, f) \in Int
      BY <2>2, WireFacts
    <3>. QED BY <1>1, <3>2, <3>3, <3>4 DEF Row
  <2>6. Through(o, g, arr, n, i) = {row[f] : f \in from}
    BY DEF Through
  <2>7. DOMAIN row = from /\ row = [f \in from |-> row[f]]
    OBVIOUS
  <2>. HIDE DEF from, row
  <2>. QED BY <2>4, <2>5, <2>6, <2>7, FiniteImage
<1>. DEFINE sets == {Through(o, g, arr, n, i) : i \in DriversOf(g, n)}
<1>10. IsFiniteSet(sets)
  <2>. DEFINE S == DriversOf(g, n)
              f == [i \in S |-> Through(o, g, arr, n, i)]
  <2>1. sets = {f[i] : i \in S} /\ DOMAIN f = S /\ f = [i \in S |-> f[i]]
    OBVIOUS
  <2>2. IsFiniteSet(S)
    BY <1>4
  <2>. HIDE DEF S, f, sets
  <2>. QED BY <2>1, <2>2, FiniteImage
<1>11. IsFiniteSet(UNION sets) /\ UNION sets \in SUBSET Row
  <2>1. \A T \in sets : IsFiniteSet(T) /\ T \in SUBSET Row
    BY <1>9
  <2>. HIDE DEF sets
  <2>. QED BY <1>10, <2>1, FS_UNION
<1>12. Candidates(o, g, arr, n) = Launches(o, g, n) \cup UNION sets
  BY DEF Candidates
<1>. HIDE DEF sets
<1>. QED BY <1>8, <1>11, <1>12, FS_Union

\* So the latest of them is a row.
LEMMA SlotsType ==
  ASSUME NEW o \in Owners, NEW g, GraphType(g), NEW arr, RowsType(g, arr), NEW n \in 1..g.nets
  PROVE  PropagateSlots(o, g, arr, n) \in Row
<1>1. Candidates(o, g, arr, n) \in SUBSET Row /\ IsFiniteSet(Candidates(o, g, arr, n))
  BY CandidateFacts
<1>2. NoRow \in Row
  BY DEF NoRow, Row
<1>3. CASE Candidates(o, g, arr, n) = {}
  BY <1>2, <1>3, SlotsAreLatest DEF LatestOf
<1>4. CASE Candidates(o, g, arr, n) # {}
  <2>. DEFINE S == Candidates(o, g, arr, n)
  <2>1. \E c \in S : \A d \in S : d.delay <= c.delay
    <3>. HIDE DEF S
    <3>. QED BY <1>1, <1>4, LatestExists DEF S
  <2>2. PropagateSlots(o, g, arr, n) = CHOOSE c \in S : \A d \in S : d.delay <= c.delay
    BY <1>4, SlotsAreLatest DEF LatestOf
  <2>3. PropagateSlots(o, g, arr, n) \in S
    <3>. HIDE DEF S
    <3>. QED BY <2>1, <2>2
  <2>. QED BY <1>1, <2>3
<1>. QED BY <1>3, <1>4

\* Two graphs drive and launch a net alike, with the same load.
SameAt(g, h, n) ==
    /\ DriversOf(g, n) = DriversOf(h, n) /\ LaunchersOf(g, n) = LaunchersOf(h, n)
    /\ \A i \in DriversOf(g, n) \cup LaunchersOf(g, n) : g.inst[i] = h.inst[i]
    /\ g.load[n] = h.load[n]
SameInputs(g, a, b, n) == \A i \in DriversOf(g, n) : \A m \in ToSet(g.inst[i].ins) : a[m] = b[m]

\* The wires into the driving gates have the same delay; they have no delay
\* when the net is free.
SameWires(o, g, h, n) ==
    \A i \in DriversOf(g, n) : \A m \in ToSet(g.inst[i].ins) : WireDelay(o, g, m) = WireDelay(o, h, m)
Free(o, g, n) ==
    \A i \in DriversOf(g, n) : \A m \in ToSet(g.inst[i].ins) : NetResistance(o, m) = 0

\* A row depends on what drives and launches its net, the net's load and the
\* rows and wires of the driving gates' inputs.
LEMMA SlotsDepend ==
  ASSUME NEW o, NEW g, NEW h, NEW a, NEW b, NEW n, SameAt(g, h, n), SameInputs(g, a, b, n),
         SameWires(o, g, h, n)
  PROVE  PropagateSlots(o, g, a, n) = PropagateSlots(o, h, b, n)
<1>1. OutputTransition(o, g, n) = OutputTransition(o, h, n)
  BY DEF OutputTransition, SameAt
<1>2. ASSUME NEW i \in DriversOf(g, n) \cup LaunchersOf(g, n), NEW row
      PROVE  ArcDelay(o, g, i, row) = ArcDelay(o, h, i, row)
  <2>1. g.inst[i] = h.inst[i] /\ g.inst[i].out = n
    BY DEF SameAt, DriversOf, LaunchersOf
  <2>. QED BY <2>1 DEF ArcDelay, SameAt
<1>3. Launches(o, g, n) = Launches(o, h, n)
  <2>1. Launches(o, g, n) =
          {[delay |-> 0, transition |-> 0] : p \in InputNets \cap {n}}
          \cup {[delay |-> ArcDelay(o, g, i, [transition |-> 0]),
                 transition |-> OutputTransition(o, g, n)] : i \in LaunchersOf(g, n)}
    BY DEF Launches, LaunchersOf
  <2>2. Launches(o, h, n) =
          {[delay |-> 0, transition |-> 0] : p \in InputNets \cap {n}}
          \cup {[delay |-> ArcDelay(o, h, i, [transition |-> 0]),
                 transition |-> OutputTransition(o, h, n)] : i \in LaunchersOf(h, n)}
    BY DEF Launches, LaunchersOf
  <2>3. {[delay |-> ArcDelay(o, g, i, [transition |-> 0]),
          transition |-> OutputTransition(o, g, n)] : i \in LaunchersOf(g, n)} =
        {[delay |-> ArcDelay(o, h, i, [transition |-> 0]),
          transition |-> OutputTransition(o, h, n)] : i \in LaunchersOf(h, n)}
    BY <1>1, <1>2 DEF SameAt
  <2>. QED BY <2>1, <2>2, <2>3
<1>4. ASSUME NEW i \in DriversOf(g, n) PROVE Through(o, g, a, n, i) = Through(o, h, b, n, i)
  <2>1. g.inst[i] = h.inst[i] /\ \A m \in ToSet(g.inst[i].ins) : a[m] = b[m]
    BY DEF SameAt, SameInputs
  <2>2. \A row : ArcDelay(o, g, i, row) = ArcDelay(o, h, i, row)
    BY <1>2
  <2>3. {m \in ToSet(g.inst[i].ins) : a[m] # NoRow} = {m \in ToSet(h.inst[i].ins) : b[m] # NoRow}
    BY <2>1
  <2>. DEFINE from == {m \in ToSet(g.inst[i].ins) : a[m] # NoRow}
  <2>4. \A f \in from : /\ a[f] = b[f] /\ ArcDelay(o, g, i, a[f]) = ArcDelay(o, h, i, b[f])
                         /\ WireDelay(o, g, f) = WireDelay(o, h, f)
    BY <2>1, <2>2 DEF SameWires
  <2>5. {[delay |-> a[f].delay + WireDelay(o, g, f) + ArcDelay(o, g, i, a[f]),
          transition |-> OutputTransition(o, g, n)] : f \in from} =
        {[delay |-> b[f].delay + WireDelay(o, h, f) + ArcDelay(o, h, i, b[f]),
          transition |-> OutputTransition(o, h, n)] : f \in from}
    <3>. HIDE DEF from
    <3>. QED BY <1>1, <2>4
  <2>. QED BY <2>3, <2>5 DEF Through
<1>5. Candidates(o, g, a, n) = Candidates(o, h, b, n)
  <2>1. DriversOf(g, n) = DriversOf(h, n)
    BY DEF SameAt
  <2>2. {Through(o, g, a, n, i) : i \in DriversOf(g, n)} = {Through(o, h, b, n, i) : i \in DriversOf(h, n)}
    BY <1>4, <2>1
  <2>. QED BY <1>3, <2>2 DEF Candidates
<1>. QED BY <1>5, SlotsAreLatest

\* In one graph it depends on the rows of the inputs only.
LEMMA SlotsDependOnInputs ==
  ASSUME NEW o, NEW g, NEW a, NEW b, NEW n, SameInputs(g, a, b, n)
  PROVE  PropagateSlots(o, g, a, n) = PropagateSlots(o, g, b, n)
<1>1. SameAt(g, g, n) /\ SameWires(o, g, g, n)
  BY DEF SameAt, SameWires
<1>. QED BY <1>1, SlotsDepend

-----------------------------------------------------------------------------
(***************************************************************************)
(* The propagation of arrivals.                                            *)
(***************************************************************************)

\* The order lists every net once, each gate's inputs before its output.
Ordered(g) ==
    /\ g.order \in Seq(1..g.nets) /\ Len(g.order) = g.nets
    /\ \A j, k \in 1..g.nets : g.order[j] = g.order[k] => j = k
    /\ \A n \in 1..g.nets : \E k \in 1..g.nets : g.order[k] = n
    /\ \A j, k \in 1..g.nets : <<g.order[j], g.order[k]>> \in Edges(g) => j < k

Journals(g) == UNION {[D -> Row] : D \in SUBSET (1..g.nets)}
Visits(g) == [arr : [1..g.nets -> Row], journal : Journals(g), changed : SUBSET (1..g.nets),
              active : SUBSET Nat]
FirstVisit(arr, seeds) == [arr |-> arr, journal |-> <<>>, changed |-> {}, active |-> seeds]

\* An order depends on the number of nets, their sequence and the edges.
LEMMA SameOrder ==
  ASSUME NEW g, NEW h, Ordered(g), h.nets = g.nets, h.order = g.order, Edges(h) = Edges(g)
  PROVE  Ordered(h)
BY DEF Ordered

\* The order lists nets.
LEMMA OrderFacts ==
  ASSUME NEW g, GraphType(g), Ordered(g)
  PROVE  g.nets \in Nat /\ Len(g.order) = g.nets /\ \A k \in 1..g.nets : g.order[k] \in 1..g.nets
<1>1. g.order \in Seq(1..g.nets) /\ Len(g.order) = g.nets /\ g.nets \in Nat
  BY DEF Ordered, GraphType
<1>. DEFINE T == 1..g.nets
            s == g.order
<1>2. s \in Seq(T)
  BY <1>1
<1>3. \A k \in 1..Len(s) : s[k] \in T
  <2>. HIDE DEF T, s
  <2>1. s \in [1..Len(s) -> T]
    BY <1>2, LenProperties
  <2>. QED BY <2>1
<1>. QED BY <1>1, <1>3

\* The nets after a net.
LEMMA SuccessorFacts ==
  ASSUME NEW g, GraphType(g), NEW n
  PROVE  /\ Successors(g, n) \in SUBSET (1..g.nets)
         /\ \A m : m \in Successors(g, n) <=> <<n, m>> \in Edges(g)
<1>1. Edges(g) \in SUBSET ((1..g.nets) \X (1..g.nets))
  BY EdgeFacts DEF GraphType
<1>2. \A e \in Edges(g) : e = <<e[1], e[2]>> /\ e[2] \in 1..g.nets
  BY <1>1
<1>. QED BY <1>2 DEF Successors

\* A row that is journaled the first time keeps the value it had.
LEMMA JournalFacts ==
  ASSUME NEW g, NEW journal \in Journals(g), NEW n \in 1..g.nets, NEW row \in Row
  PROVE  /\ Journaled(journal, n, row) \in Journals(g)
         /\ DOMAIN Journaled(journal, n, row) = DOMAIN journal \cup {n}
         /\ DOMAIN journal \in SUBSET (1..g.nets)
         /\ \A m \in DOMAIN journal : Journaled(journal, n, row)[m] = journal[m]
         /\ n \notin DOMAIN journal => Journaled(journal, n, row)[n] = row
<1>1. PICK D \in SUBSET (1..g.nets) : journal \in [D -> Row]
  BY DEF Journals
<1>2. DOMAIN journal = D /\ \A m \in D : journal[m] \in Row
  BY <1>1
<1>3. Journaled(journal, n, row) \in [D \cup {n} -> Row] /\ D \cup {n} \in SUBSET (1..g.nets)
  BY <1>2 DEF Journaled
<1>4. Journaled(journal, n, row) \in Journals(g)
  BY <1>3 DEF Journals
<1>. QED BY <1>2, <1>4 DEF Journaled

\* What a visit does to each piece.
VisitDone(o, g, acc, n, next) ==
    /\ next \in Visits(g)
    /\ n \notin acc.active => next = acc
    /\ n \in acc.active =>
         /\ next.arr = [acc.arr EXCEPT ![n] = PropagateSlots(o, g, acc.arr, n)]
         /\ next.journal = Journaled(acc.journal, n, acc.arr[n])
         /\ acc.active \subseteq next.active
         /\ PropagateSlots(o, g, acc.arr, n) # acc.arr[n] => Successors(g, n) \subseteq next.active

\* A visit does that.
LEMMA VisitFacts ==
  ASSUME NEW o \in Owners, NEW g, GraphType(g), NEW acc \in Visits(g), NEW n \in 1..g.nets
  PROVE  VisitDone(o, g, acc, n, VisitArrival(o, g, acc, n))
<1>. DEFINE next == VisitArrival(o, g, acc, n)
            row == PropagateSlots(o, g, acc.arr, n)
<1>1. /\ acc.arr \in [1..g.nets -> Row] /\ acc.journal \in Journals(g)
      /\ acc.changed \in SUBSET (1..g.nets) /\ acc.active \in SUBSET Nat
  BY DEF Visits
<1>2. row \in Row
  BY <1>1, SlotsType DEF RowsType
<1>3. Successors(g, n) \in SUBSET Nat
  BY SuccessorFacts
<1>4. acc.arr[n] \in Row
  BY <1>1
<1>5. Journaled(acc.journal, n, acc.arr[n]) \in Journals(g)
  BY <1>1, <1>4, JournalFacts
<1>6. n \notin acc.active => next = acc
  BY DEF VisitArrival
<1>. HIDE DEF row
<1>7. ASSUME n \in acc.active
      PROVE  /\ next \in Visits(g)
             /\ next.arr = [acc.arr EXCEPT ![n] = row]
             /\ next.journal = Journaled(acc.journal, n, acc.arr[n])
             /\ acc.active \subseteq next.active
             /\ row # acc.arr[n] => Successors(g, n) \subseteq next.active
  <2>. DEFINE changed == IF row # acc.arr[n] THEN acc.changed \cup {n} ELSE acc.changed
              active == IF row # acc.arr[n] THEN acc.active \cup Successors(g, n) ELSE acc.active
              arr == [acc.arr EXCEPT ![n] = row]
              journal == Journaled(acc.journal, n, acc.arr[n])
  <2>1. next = [arr |-> arr, journal |-> journal, changed |-> changed, active |-> active]
    BY <1>7 DEF VisitArrival, row
  <2>2. arr \in [1..g.nets -> Row]
    BY <1>1, <1>2
  <2>3. changed \in SUBSET (1..g.nets) /\ active \in SUBSET Nat /\ acc.active \subseteq active
        /\ (row # acc.arr[n] => Successors(g, n) \subseteq active)
    BY <1>1, <1>3
  <2>4. journal \in Journals(g)
    BY <1>5
  <2>. HIDE DEF next, arr, journal, changed, active
  <2>5. next \in Visits(g)
    BY <2>1, <2>2, <2>3, <2>4 DEF Visits
  <2>6. next.arr = arr /\ next.journal = journal /\ next.active = active
    BY <2>1
  <2>. QED BY <2>3, <2>5, <2>6 DEF arr, journal
<1>. HIDE DEF next
<1>8. next \in Visits(g)
  BY <1>6, <1>7
<1>. QED BY <1>6, <1>7, <1>8 DEF next, row, VisitDone

\* The recursive definition has a solution, so it is one.
LEMMA ArrivalSteps ==
  ASSUME NEW o \in Owners, NEW g, GraphType(g), Ordered(g), NEW arr, RowsType(g, arr),
         NEW seeds \in SUBSET Nat
  PROVE  \E visited :
            /\ UpdateArrivals(o, g, arr, seeds) = visited[g.nets]
            /\ visited[0] = FirstVisit(arr, seeds) /\ FirstVisit(arr, seeds) \in Visits(g)
            /\ \A k \in 1..g.nets : visited[k] = VisitArrival(o, g, visited[k - 1], g.order[k])
<1>. DEFINE N == Len(g.order)
            visited[k \in 0..N] ==
                IF k = 0 THEN [arr |-> arr, journal |-> <<>>, changed |-> {}, active |-> seeds]
                ELSE VisitArrival(o, g, visited[k - 1], g.order[k])
            V == Visits(g)
            a == FirstVisit(arr, seeds)
            step == [k \in 1..N |-> [p \in V |-> VisitArrival(o, g, p, g.order[k])]]
<1>1. N \in Nat /\ N = g.nets /\ \A k \in 1..N : g.order[k] \in 1..g.nets
  BY OrderFacts
<1>2. a \in V
  <2>1. <<>> \in [{} -> Row]
    OBVIOUS
  <2>2. <<>> \in Journals(g)
    BY <2>1 DEF Journals
  <2>. QED BY <2>2 DEF FirstVisit, Visits, RowsType
<1>3. step \in [1..N -> [V -> V]]
  <2>1. ASSUME NEW k \in 1..N, NEW p \in V PROVE VisitArrival(o, g, p, g.order[k]) \in V
    BY <1>1, <2>1, VisitFacts DEF VisitDone
  <2>. QED BY <2>1
<1>4. PICK f \in [0..N -> V] : f[0] = a /\ \A k \in 1..N : f[k] = step[k][f[k - 1]]
  <2>. HIDE DEF step, N, V, a
  <2>1. IsRecursion(N, V, a, step)
    BY <1>1, <1>2, <1>3 DEF IsRecursion
  <2>2. Solutions(N, V, a, step) # {}
    BY <2>1, RecursionExists
  <2>. QED BY <2>2 DEF Solutions
<1>5. f = [k \in 0..N |-> IF k = 0 THEN a ELSE VisitArrival(o, g, f[k - 1], g.order[k])]
  <2>1. ASSUME NEW k \in 1..N PROVE f[k] = VisitArrival(o, g, f[k - 1], g.order[k])
    <3>1. f[k - 1] \in V
      BY <1>1, <1>4
    <3>. QED BY <1>4, <3>1
  <2>. HIDE DEF N, a, V
  <2>. QED BY <1>1, <1>4, <2>1
<1>6. visited = [k \in 0..N |-> IF k = 0 THEN a ELSE VisitArrival(o, g, visited[k - 1], g.order[k])]
  <2>1. visited = CHOOSE h : h = [k \in 0..N |-> IF k = 0 THEN a ELSE VisitArrival(o, g, h[k - 1], g.order[k])]
    BY DEF visited, FirstVisit
  <2>. HIDE DEF visited
  <2>. QED BY <1>5, <2>1
<1>7. UpdateArrivals(o, g, arr, seeds) = visited[N]
  BY DEF UpdateArrivals
<1>. HIDE DEF visited, N, V, a, step
<1>8. visited[0] = a /\ \A k \in 1..N : visited[k] = VisitArrival(o, g, visited[k - 1], g.order[k])
  <2>1. 0 \in 0..N
    BY <1>1
  <2>2. \A k \in 1..N : k \in 0..N /\ k # 0
    BY <1>1
  <2>. QED BY <1>6, <2>1, <2>2
<1>. QED BY <1>1, <1>2, <1>7, <1>8 DEF a, V

\* What holds after the first k nets of the order: what was overwritten is in
\* the journal with the value it had, and the seeds among those nets were
\* visited.
Kept(g, start, seeds, k, acc) ==
    /\ acc \in Visits(g) /\ seeds \subseteq acc.active
    /\ \A j \in 1..g.nets : g.order[j] \in DOMAIN acc.journal => j <= k
    /\ \A n \in DOMAIN acc.journal : acc.journal[n] = start[n]
    /\ \A n \in 1..g.nets : n \notin DOMAIN acc.journal => acc.arr[n] = start[n]
    /\ \A j \in 1..g.nets : j <= k /\ g.order[j] \in seeds => g.order[j] \in DOMAIN acc.journal

\* Those of these nets that are free have the row their inputs give, and a
\* changed row has put its successors on the frontier.
Settled(o, g, start, k, acc) ==
    /\ \A j \in 1..g.nets : j <= k /\ Free(o, g, g.order[j]) =>
          acc.arr[g.order[j]] = PropagateSlots(o, g, acc.arr, g.order[j])
    /\ \A j \in 1..g.nets : j <= k /\ acc.arr[g.order[j]] # start[g.order[j]] =>
          Successors(g, g.order[j]) \subseteq acc.active

\* One more net.
LEMMA KeptStep ==
  ASSUME NEW o \in Owners, NEW g, GraphType(g), Ordered(g), NEW start, RowsType(g, start),
         NEW seeds, NEW k \in 1..g.nets, NEW acc, Kept(g, start, seeds, k - 1, acc)
  PROVE  Kept(g, start, seeds, k, VisitArrival(o, g, acc, g.order[k]))
<1>. DEFINE n == g.order[k]
            next == VisitArrival(o, g, acc, n)
            row == PropagateSlots(o, g, acc.arr, n)
<1>1. /\ n \in 1..g.nets /\ g.nets \in Nat
      /\ \A j \in 1..g.nets : g.order[j] \in 1..g.nets /\ (g.order[j] = n => j = k)
  BY OrderFacts DEF Ordered
<1>2. acc \in Visits(g) /\ seeds \subseteq acc.active
  BY DEF Kept
<1>3. /\ next \in Visits(g)
      /\ n \notin acc.active => next = acc
      /\ n \in acc.active =>
              /\ next.arr = [acc.arr EXCEPT ![n] = row]
              /\ next.journal = Journaled(acc.journal, n, acc.arr[n])
              /\ acc.active \subseteq next.active
  <2>1. VisitDone(o, g, acc, n, next)
    BY <1>1, <1>2, VisitFacts
  <2>. HIDE DEF n, next
  <2>. QED BY <2>1 DEF VisitDone
<1>4. acc.arr \in [1..g.nets -> Row] /\ acc.journal \in Journals(g)
  BY <1>2 DEF Visits
<1>. HIDE DEF n, next, row
<1>5. CASE n \notin acc.active
  <2>1. next = acc /\ n \notin seeds
    BY <1>2, <1>3, <1>5
  <2>2. \A j \in 1..g.nets : j <= k /\ g.order[j] \in seeds => g.order[j] \in DOMAIN acc.journal
    <3>1. ASSUME NEW j \in 1..g.nets, j <= k, g.order[j] \in seeds PROVE j <= k - 1
      BY <1>1, <2>1, <3>1 DEF n
    <3>. QED BY <3>1 DEF Kept
  <2>3. \A j \in 1..g.nets : g.order[j] \in DOMAIN acc.journal => j <= k
    BY <1>1 DEF Kept
  <2>. QED BY <2>1, <2>2, <2>3 DEF Kept, n, next
<1>6. CASE n \in acc.active
  <2>1. acc.arr[n] \in Row /\ n \notin DOMAIN acc.journal
    BY <1>1, <1>4 DEF Kept, n
  <2>2. /\ DOMAIN next.journal = DOMAIN acc.journal \cup {n}
        /\ \A m \in DOMAIN acc.journal : next.journal[m] = acc.journal[m]
        /\ next.journal[n] = acc.arr[n]
    <3>1. next.journal = Journaled(acc.journal, n, acc.arr[n])
      BY <1>3, <1>6
    <3>2. /\ DOMAIN Journaled(acc.journal, n, acc.arr[n]) = DOMAIN acc.journal \cup {n}
          /\ \A m \in DOMAIN acc.journal : Journaled(acc.journal, n, acc.arr[n])[m] = acc.journal[m]
          /\ Journaled(acc.journal, n, acc.arr[n])[n] = acc.arr[n]
      BY <2>1 DEF Journaled
    <3>. QED BY <3>1, <3>2
  <2>3. \A m \in DOMAIN next.journal : next.journal[m] = start[m]
    <3>1. acc.arr[n] = start[n]
      BY <1>1, <2>1 DEF Kept
    <3>. QED BY <2>2, <3>1 DEF Kept
  <2>4. \A m \in 1..g.nets : m \notin DOMAIN next.journal => next.arr[m] = start[m]
    <3>1. \A m \in 1..g.nets : m # n => next.arr[m] = acc.arr[m]
      BY <1>3, <1>4, <1>6
    <3>. QED BY <2>2, <3>1 DEF Kept
  <2>5. \A j \in 1..g.nets : g.order[j] \in DOMAIN next.journal => j <= k
    BY <1>1, <2>2 DEF Kept
  <2>6. \A j \in 1..g.nets : j <= k /\ g.order[j] \in seeds => g.order[j] \in DOMAIN next.journal
    <3>1. ASSUME NEW j \in 1..g.nets, j <= k, g.order[j] \in seeds PROVE j <= k - 1 \/ g.order[j] = n
      BY <3>1 DEF n
    <3>. QED BY <2>2, <3>1 DEF Kept
  <2>7. seeds \subseteq next.active
    BY <1>2, <1>3, <1>6
  <2>. QED BY <1>3, <2>3, <2>4, <2>5, <2>6, <2>7 DEF Kept, n, next
<1>. QED BY <1>5, <1>6

\* The rows a net's row is computed from are those of the nets before it.
LEMMA InputsBefore ==
  ASSUME NEW g, GraphType(g), Ordered(g), NEW k \in 1..g.nets, NEW a, NEW b,
         \A j \in 1..g.nets : j < k => a[g.order[j]] = b[g.order[j]]
  PROVE  SameInputs(g, a, b, g.order[k])
<1>1. ASSUME NEW i \in DriversOf(g, g.order[k]), NEW m \in ToSet(g.inst[i].ins) PROVE a[m] = b[m]
  <2>1. i \in Gates(g) /\ g.inst[i].out = g.order[k]
    BY DEF DriversOf
  <2>2. <<m, g.order[k]>> \in Edges(g) /\ m \in 1..g.nets
    <3>1. InstType(g.inst, g.nets) /\ i \in Present(g)
      BY <2>1 DEF GraphType, Gates
    <3>2. m \in 1..g.nets
      BY <3>1, PresentFacts
    <3>3. <<m, g.order[k]>> \in Edges(g)
      BY <2>1, <3>1, EdgeFacts
    <3>. QED BY <3>2, <3>3
  <2>3. PICK j \in 1..g.nets : g.order[j] = m
    BY <2>2 DEF Ordered
  <2>4. j < k
    BY <2>2, <2>3 DEF Ordered
  <2>. QED BY <2>3, <2>4
<1>. QED BY <1>1 DEF SameInputs

\* One more net of a propagation whose seeds include the free nets whose row
\* may be wrong.
LEMMA SettledStep ==
  ASSUME NEW o \in Owners, NEW g, GraphType(g), Ordered(g), NEW start, RowsType(g, start),
         NEW seeds, NEW k \in 1..g.nets, NEW acc, Kept(g, start, seeds, k - 1, acc),
         \A n \in 1..g.nets : n \notin seeds /\ Free(o, g, n) => start[n] = PropagateSlots(o, g, start, n),
         Settled(o, g, start, k - 1, acc)
  PROVE  Settled(o, g, start, k, VisitArrival(o, g, acc, g.order[k]))
<1>. DEFINE n == g.order[k]
            next == VisitArrival(o, g, acc, n)
            row == PropagateSlots(o, g, acc.arr, n)
<1>1. /\ n \in 1..g.nets /\ g.nets \in Nat
      /\ \A j \in 1..g.nets : g.order[j] \in 1..g.nets /\ (g.order[j] = n => j = k)
  BY OrderFacts DEF Ordered
<1>2. acc \in Visits(g) /\ seeds \subseteq acc.active
  BY DEF Kept
<1>3. /\ next \in Visits(g)
      /\ n \notin acc.active => next = acc
      /\ n \in acc.active =>
              /\ next.arr = [acc.arr EXCEPT ![n] = row]
              /\ acc.active \subseteq next.active
              /\ row # acc.arr[n] => Successors(g, n) \subseteq next.active
  <2>1. VisitDone(o, g, acc, n, next)
    BY <1>1, <1>2, VisitFacts
  <2>. HIDE DEF n, next
  <2>. QED BY <2>1 DEF VisitDone
<1>4. acc.arr \in [1..g.nets -> Row] /\ start \in [1..g.nets -> Row]
  BY <1>2 DEF Visits, RowsType
<1>5. acc.arr[n] = start[n]
  <2>1. n \notin DOMAIN acc.journal
    BY <1>1 DEF Kept, n
  <2>. QED BY <1>1, <2>1 DEF Kept
<1>. HIDE DEF n, next, row
<1>6. CASE n \notin acc.active
  <2>1. next = acc /\ n \notin seeds
    BY <1>2, <1>3, <1>6
  <2>2. ASSUME NEW i \in DriversOf(g, n), NEW m \in ToSet(g.inst[i].ins) PROVE acc.arr[m] = start[m]
    <3>1. i \in Gates(g) /\ g.inst[i].out = n /\ i \in Present(g) /\ InstType(g.inst, g.nets)
      BY DEF DriversOf, Gates, GraphType
    <3>2. <<m, n>> \in Edges(g) /\ m \in 1..g.nets
      BY <3>1, EdgeFacts, PresentFacts
    <3>3. PICK j \in 1..g.nets : g.order[j] = m
      BY <3>2 DEF Ordered
    <3>4. j <= k - 1
      <4>1. <<g.order[j], g.order[k]>> \in Edges(g)
        BY <3>2, <3>3 DEF n
      <4>2. j < k
        BY <4>1 DEF Ordered
      <4>. QED BY <1>1, <4>2
    <3>5. n \in Successors(g, m)
      BY <3>2, SuccessorFacts
    <3>. QED BY <1>6, <3>3, <3>4, <3>5 DEF Settled
  <2>3. PropagateSlots(o, g, acc.arr, n) = PropagateSlots(o, g, start, n)
    BY <2>2, SlotsDependOnInputs DEF SameInputs
  <2>4. Free(o, g, n) => acc.arr[n] = PropagateSlots(o, g, acc.arr, n)
    BY <1>1, <1>5, <2>1, <2>3
  <2>5. ASSUME NEW j \in 1..g.nets, j <= k
        PROVE  /\ Free(o, g, g.order[j]) =>
                     acc.arr[g.order[j]] = PropagateSlots(o, g, acc.arr, g.order[j])
               /\ acc.arr[g.order[j]] # start[g.order[j]] => Successors(g, g.order[j]) \subseteq acc.active
    <3>1. CASE j = k
      BY <1>5, <2>4, <3>1 DEF n
    <3>2. CASE j # k
      <4>1. j <= k - 1
        BY <2>5, <3>2
      <4>. QED BY <4>1 DEF Settled
    <3>. QED BY <3>1, <3>2
  <2>. QED BY <2>1, <2>5 DEF Settled, n, next
<1>7. CASE n \in acc.active
  <2>1. \A m \in 1..g.nets : next.arr[m] = IF m = n THEN row ELSE acc.arr[m]
    BY <1>3, <1>4, <1>7
  <2>2. \A j \in 1..g.nets : j < k => next.arr[g.order[j]] = acc.arr[g.order[j]]
    BY <1>1, <2>1 DEF n
  <2>3. ASSUME NEW j \in 1..g.nets, j <= k
        PROVE  PropagateSlots(o, g, next.arr, g.order[j]) = PropagateSlots(o, g, acc.arr, g.order[j])
    <3>1. \A l \in 1..g.nets : l < j => next.arr[g.order[l]] = acc.arr[g.order[l]]
      BY <1>1, <2>2, <2>3
    <3>2. SameInputs(g, next.arr, acc.arr, g.order[j])
      BY <3>1, InputsBefore
    <3>. QED BY <3>2, SlotsDependOnInputs
  <2>4. ASSUME NEW j \in 1..g.nets, j <= k
        PROVE  /\ Free(o, g, g.order[j]) =>
                     next.arr[g.order[j]] = PropagateSlots(o, g, next.arr, g.order[j])
               /\ next.arr[g.order[j]] # start[g.order[j]] => Successors(g, g.order[j]) \subseteq next.active
    <3>1. PropagateSlots(o, g, next.arr, g.order[j]) = PropagateSlots(o, g, acc.arr, g.order[j])
      BY <2>3, <2>4
    <3>2. CASE j = k
      BY <1>1, <1>3, <1>5, <1>7, <2>1, <3>1, <3>2 DEF n, row
    <3>3. CASE j # k
      <4>1. j <= k - 1 /\ j < k
        BY <2>4, <3>3
      <4>. QED BY <1>3, <1>7, <2>2, <3>1, <4>1 DEF Settled
    <3>. QED BY <3>2, <3>3
  <2>. QED BY <2>4 DEF Settled, n, next
<1>. QED BY <1>6, <1>7

\* The rows a graph asks for: that of a free net is what its inputs give.
Fix(o, g, arr) ==
    /\ RowsType(g, arr)
    /\ \A n \in 1..g.nets : Free(o, g, n) => arr[n] = PropagateSlots(o, g, arr, n)

\* The journal of a propagation is exact, its seeds are in it, and when the
\* seeds include every free net whose row may be wrong none is at the end.
LEMMA ArrivalsExact ==
  ASSUME NEW o \in Owners, NEW g, GraphType(g), Ordered(g), NEW start, RowsType(g, start),
         NEW seeds \in SUBSET Nat
  PROVE  LET forward == UpdateArrivals(o, g, start, seeds) IN
         /\ RowsType(g, forward.arr) /\ forward.journal \in Journals(g)
         /\ \A n \in DOMAIN forward.journal : n \in 1..g.nets /\ forward.journal[n] = start[n]
         /\ \A n \in 1..g.nets : n \notin DOMAIN forward.journal => forward.arr[n] = start[n]
         /\ \A n \in 1..g.nets : n \in seeds => n \in DOMAIN forward.journal
         /\ (\A n \in 1..g.nets : n \notin seeds /\ Free(o, g, n)
                                     => start[n] = PropagateSlots(o, g, start, n))
               => Fix(o, g, forward.arr)
<1>. DEFINE forward == UpdateArrivals(o, g, start, seeds)
<1>1. PICK visited :
            /\ forward = visited[g.nets]
            /\ visited[0] = FirstVisit(start, seeds) /\ FirstVisit(start, seeds) \in Visits(g)
            /\ \A k \in 1..g.nets : visited[k] = VisitArrival(o, g, visited[k - 1], g.order[k])
  BY ArrivalSteps
<1>. DEFINE Right == \A n \in 1..g.nets : n \notin seeds /\ Free(o, g, n)
                                             => start[n] = PropagateSlots(o, g, start, n)
            S == {k \in 0..g.nets : /\ Kept(g, start, seeds, k, visited[k])
                                    /\ Right => Settled(o, g, start, k, visited[k])}
<1>. HIDE DEF forward
<1>2. 0 \in S
  <2>1. g.nets \in Nat
    BY DEF GraphType
  <2>2. visited[0].arr = start /\ visited[0].active = seeds /\ DOMAIN visited[0].journal = {}
    BY <1>1 DEF FirstVisit
  <2>3. Kept(g, start, seeds, 0, visited[0])
    BY <1>1, <2>1, <2>2 DEF Kept
  <2>4. Settled(o, g, start, 0, visited[0])
    BY <2>1 DEF Settled
  <2>. QED BY <2>1, <2>3, <2>4
<1>3. ASSUME NEW k \in 1..g.nets, k - 1 \in S PROVE k \in S
  <2>1. /\ Kept(g, start, seeds, k - 1, visited[k - 1])
        /\ Right => Settled(o, g, start, k - 1, visited[k - 1])
    BY <1>3
  <2>2. Kept(g, start, seeds, k, visited[k])
    BY <1>1, <2>1, KeptStep
  <2>3. ASSUME Right PROVE Settled(o, g, start, k, visited[k])
    BY <1>1, <2>1, <2>3, SettledStep
  <2>. HIDE DEF Right
  <2>. QED BY <2>2, <2>3
<1>4. g.nets \in S
  <2>1. g.nets \in Nat
    BY DEF GraphType
  <2>. HIDE DEF S
  <2>2. 0..g.nets \subseteq S
    BY <1>2, <1>3, <2>1, PositionInduction
  <2>. QED BY <2>1, <2>2
<1>5. Kept(g, start, seeds, g.nets, forward) /\ (Right => Settled(o, g, start, g.nets, forward))
  BY <1>1, <1>4
<1>. HIDE DEF Right
<1>6. g.nets \in Nat /\ \A n \in 1..g.nets : \E k \in 1..g.nets : g.order[k] = n
  BY DEF Ordered, GraphType
<1>7. forward \in Visits(g)
  BY <1>5 DEF Kept
<1>8. RowsType(g, forward.arr) /\ forward.journal \in Journals(g)
  BY <1>7 DEF Visits, RowsType
<1>9. DOMAIN forward.journal \subseteq 1..g.nets
  BY <1>8 DEF Journals
<1>10. /\ \A n \in DOMAIN forward.journal : forward.journal[n] = start[n]
       /\ \A n \in 1..g.nets : n \notin DOMAIN forward.journal => forward.arr[n] = start[n]
  BY <1>5 DEF Kept
<1>11. \A n \in 1..g.nets : n \in seeds => n \in DOMAIN forward.journal
  BY <1>5, <1>6 DEF Kept
<1>12. ASSUME Right PROVE Fix(o, g, forward.arr)
  <2>1. \A n \in 1..g.nets : Free(o, g, n) => forward.arr[n] = PropagateSlots(o, g, forward.arr, n)
    BY <1>5, <1>6, <1>12 DEF Settled
  <2>. QED BY <1>8, <2>1 DEF Fix
<1>. QED BY <1>8, <1>9, <1>10, <1>11, <1>12 DEF forward, Right

-----------------------------------------------------------------------------
(***************************************************************************)
(* What is upstream of a net.                                              *)
(***************************************************************************)

\* A set of nets with the predecessors of its members.
Grown(edges, X) == X \cup {e[1] : e \in {d \in edges : d[2] \in X}}

\* A set of nets with everything upstream of it.
Closed(edges, X) == \A e \in edges : e[2] \in X => e[1] \in X

\* The recursive definition has a solution, so it is one.
LEMMA UpstreamSteps ==
  ASSUME NEW edges, IsFiniteSet(edges), NEW targets
  PROVE  \E grown : /\ Upstream(edges, targets) = grown[Cardinality(edges)]
                    /\ grown[0] = targets
                    /\ \A k \in 1..Cardinality(edges) : grown[k] = Grown(edges, grown[k - 1])
<1>. DEFINE N == Cardinality(edges)
            grown[k \in 0..N] ==
                IF k = 0 THEN targets
                ELSE grown[k - 1] \cup {e[1] : e \in {d \in edges : d[2] \in grown[k - 1]}}
            V == SUBSET (targets \cup {e[1] : e \in edges})
            step == [k \in 1..N |-> [X \in V |-> Grown(edges, X)]]
<1>1. N \in Nat
  BY FS_CardinalityType
<1>2. targets \in V
  OBVIOUS
<1>3. step \in [1..N -> [V -> V]]
  <2>1. ASSUME NEW X \in V PROVE Grown(edges, X) \in V
    BY DEF Grown
  <2>. QED BY <2>1
<1>4. PICK f \in [0..N -> V] : f[0] = targets /\ \A k \in 1..N : f[k] = step[k][f[k - 1]]
  <2>. HIDE DEF step, N, V
  <2>1. IsRecursion(N, V, targets, step)
    BY <1>1, <1>2, <1>3 DEF IsRecursion
  <2>2. Solutions(N, V, targets, step) # {}
    BY <2>1, RecursionExists
  <2>. QED BY <2>2 DEF Solutions
<1>5. f = [k \in 0..N |-> IF k = 0 THEN targets ELSE Grown(edges, f[k - 1])]
  <2>1. ASSUME NEW k \in 1..N PROVE f[k] = Grown(edges, f[k - 1])
    <3>1. f[k - 1] \in V
      <4>. HIDE DEF V, N
      <4>. QED BY <1>1, <1>4
    <3>2. f[k] = step[k][f[k - 1]]
      BY <1>4
    <3>. HIDE DEF V, N
    <3>. QED BY <3>1, <3>2
  <2>. HIDE DEF N, V
  <2>. QED BY <1>1, <1>4, <2>1
<1>6. grown = [k \in 0..N |-> IF k = 0 THEN targets ELSE Grown(edges, grown[k - 1])]
  <2>1. grown = CHOOSE h : h = [k \in 0..N |-> IF k = 0 THEN targets ELSE Grown(edges, h[k - 1])]
    BY DEF grown, Grown
  <2>. HIDE DEF grown
  <2>. QED BY <1>5, <2>1
<1>7. Upstream(edges, targets) = grown[N]
  BY DEF Upstream
<1>. HIDE DEF grown, N
<1>8. grown[0] = targets /\ \A k \in 1..N : grown[k] = Grown(edges, grown[k - 1])
  BY <1>1, <1>6
<1>. QED BY <1>7, <1>8 DEF N

\* The search starts at the targets and is done when it stops: as long as it
\* is not, every round meets an edge it had not met.
LEMMA UpstreamClosed ==
  ASSUME NEW edges, IsFiniteSet(edges), NEW targets
  PROVE  targets \subseteq Upstream(edges, targets) /\ Closed(edges, Upstream(edges, targets))
<1>. DEFINE N == Cardinality(edges)
<1>1. PICK grown : /\ Upstream(edges, targets) = grown[N] /\ grown[0] = targets
                   /\ \A k \in 1..N : grown[k] = Grown(edges, grown[k - 1])
  BY UpstreamSteps
<1>2. N \in Nat
  BY FS_CardinalityType
<1>. DEFINE Met(k) == {e \in edges : e[2] \in grown[k]}
            S == {k \in 0..N : /\ targets \subseteq grown[k]
                               /\ ~Closed(edges, grown[k]) => Cardinality(Met(k)) > k}
<1>3. \A k : IsFiniteSet(Met(k)) /\ Cardinality(Met(k)) \in Nat
  <2>1. \A k : Met(k) \in SUBSET edges
    OBVIOUS
  <2>. HIDE DEF Met
  <2>. QED BY <2>1, FS_Subset, FS_CardinalityType
<1>4. 0 \in S
  <2>1. ASSUME ~Closed(edges, grown[0]) PROVE Cardinality(Met(0)) > 0
    <3>1. Met(0) # {}
      BY <2>1 DEF Closed
    <3>. HIDE DEF Met
    <3>2. Cardinality(Met(0)) # 0
      BY <1>3, <3>1, FS_EmptySet
    <3>. QED BY <1>3, <3>2
  <2>. HIDE DEF Met
  <2>. QED BY <1>1, <1>2, <2>1
<1>5. ASSUME NEW k \in 1..N, k - 1 \in S PROVE k \in S
  <2>1. grown[k] = Grown(edges, grown[k - 1])
    BY <1>1
  <2>2. targets \subseteq grown[k] /\ grown[k - 1] \subseteq grown[k]
    BY <1>5, <2>1 DEF Grown
  <2>3. ASSUME ~Closed(edges, grown[k]) PROVE Cardinality(Met(k)) > k
    <3>1. ~Closed(edges, grown[k - 1])
      BY <2>1, <2>3 DEF Grown, Closed
    <3>2. PICK e \in edges : e[2] \in grown[k] /\ e[1] \notin grown[k]
      BY <2>3 DEF Closed
    <3>3. e \in Met(k) /\ e \notin Met(k - 1)
      BY <2>1, <3>2 DEF Grown
    <3>4. Met(k - 1) \in SUBSET Met(k)
      BY <2>2
    <3>5. Cardinality(Met(k - 1)) > k - 1
      BY <1>5, <3>1
    <3>. HIDE DEF Met
    <3>6. /\ Cardinality(Met(k - 1)) <= Cardinality(Met(k))
          /\ Cardinality(Met(k - 1)) # Cardinality(Met(k))
      <4>1. IsFiniteSet(Met(k)) /\ Met(k) # Met(k - 1)
        BY <1>3, <3>3
      <4>. QED BY <3>4, <4>1, FS_Subset
    <3>. QED BY <1>3, <3>5, <3>6
  <2>. HIDE DEF Met
  <2>. QED BY <2>2, <2>3
<1>6. N \in S
  <2>. HIDE DEF S, N
  <2>1. 0..N \subseteq S
    BY <1>2, <1>4, <1>5, PositionInduction
  <2>. QED BY <1>2, <2>1
<1>7. Cardinality(Met(N)) <= N
  <2>1. Met(N) \in SUBSET edges
    OBVIOUS
  <2>. HIDE DEF Met
  <2>. QED BY <2>1, FS_Subset
<1>8. Closed(edges, grown[N])
  <2>1. ~(Cardinality(Met(N)) > N)
    <3>. HIDE DEF Met, N
    <3>. QED BY <1>2, <1>3, <1>7
  <2>. QED BY <1>6, <2>1
<1>. QED BY <1>1, <1>6, <1>8

\* And it meets nothing else.
LEMMA UpstreamLeast ==
  ASSUME NEW edges, IsFiniteSet(edges), NEW targets, NEW X, targets \subseteq X, Closed(edges, X)
  PROVE  Upstream(edges, targets) \subseteq X
<1>. DEFINE N == Cardinality(edges)
<1>1. PICK grown : /\ Upstream(edges, targets) = grown[N] /\ grown[0] = targets
                   /\ \A k \in 1..N : grown[k] = Grown(edges, grown[k - 1])
  BY UpstreamSteps
<1>2. N \in Nat
  BY FS_CardinalityType
<1>. DEFINE S == {k \in 0..N : grown[k] \subseteq X}
<1>3. 0 \in S
  BY <1>1, <1>2
<1>4. ASSUME NEW k \in 1..N, k - 1 \in S PROVE k \in S
  BY <1>1, <1>4 DEF Grown, Closed
<1>5. N \in S
  <2>. HIDE DEF S, N
  <2>1. 0..N \subseteq S
    BY <1>2, <1>3, <1>4, PositionInduction
  <2>. QED BY <1>2, <2>1
<1>. QED BY <1>1, <1>5

\* Upstream of upstream is upstream.
LEMMA UpstreamTransitive ==
  ASSUME NEW edges, IsFiniteSet(edges), NEW a, NEW b, NEW c,
         a \in Upstream(edges, {b}), b \in Upstream(edges, {c})
  PROVE  a \in Upstream(edges, {c})
<1>1. Closed(edges, Upstream(edges, {c}))
  BY UpstreamClosed
<1>2. Upstream(edges, {b}) \subseteq Upstream(edges, {c})
  BY <1>1, UpstreamLeast
<1>. QED BY <1>2

\* An edge's start is upstream of its end.
LEMMA UpstreamEdge ==
  ASSUME NEW edges, IsFiniteSet(edges), NEW a, NEW b, <<a, b>> \in edges
  PROVE  a \in Upstream(edges, {b}) /\ a \in Upstream(edges, {a})
<1>1. /\ {b} \subseteq Upstream(edges, {b}) /\ Closed(edges, Upstream(edges, {b}))
      /\ {a} \subseteq Upstream(edges, {a})
  BY UpstreamClosed
<1>. QED BY <1>1 DEF Closed

\* What is upstream of a net, and is not that net, has an edge to another such
\* net.
LEMMA UpstreamNext ==
  ASSUME NEW edges, IsFiniteSet(edges), NEW a, NEW b, a \in Upstream(edges, {b}), a # b
  PROVE  \E e \in edges : e[1] = a /\ e[2] \in Upstream(edges, {b})
<1>. DEFINE U == Upstream(edges, {b})
            X == {x \in U : x = b \/ \E e \in edges : e[1] = x /\ e[2] \in U}
<1>1. {b} \subseteq U /\ Closed(edges, U)
  BY UpstreamClosed
<1>. HIDE DEF U
<1>2. {b} \subseteq X /\ Closed(edges, X)
  BY <1>1 DEF Closed
<1>3. U \subseteq X
  <2>. HIDE DEF X
  <2>. QED BY <1>2, UpstreamLeast DEF U
<1>. QED BY <1>3 DEF U

\* The graph of a netlist has finitely many edges.
LEMMA EdgesFinite ==
  ASSUME NEW g, NEW count \in Nat, InstType(g.inst, count)
  PROVE  IsFiniteSet(Edges(g)) /\ Edges(g) \in SUBSET ((1..count) \X (1..count))
<1>1. Edges(g) \in SUBSET ((1..count) \X (1..count))
  BY EdgeFacts
<1>2. 1 \in Int /\ count \in Int
  OBVIOUS
<1>3. IsFiniteSet(1..count)
  BY <1>2, FS_Interval
<1>4. IsFiniteSet((1..count) \X (1..count))
  BY <1>3, FS_Product
<1>. QED BY <1>1, <1>4, FS_Subset

\* What drives a shielded net is shielded and has no resistance.
LEMMA ShieldedFacts ==
  ASSUME NEW o, NEW g, GraphType(g), NEW n, Shielded(o, g, n)
  PROVE  Free(o, g, n) /\ \A m : <<m, n>> \in Edges(g) => Shielded(o, g, m)
<1>. DEFINE E == Edges(g)
            U == Upstream(E, Predecessors(g, n))
<1>1. InstType(g.inst, g.nets) /\ g.nets \in Nat
  BY DEF GraphType
<1>2. IsFiniteSet(E) /\ \A e \in E : e = <<e[1], e[2]>>
  BY <1>1, EdgesFinite
<1>3. \A l, m : l \in Predecessors(g, m) <=> <<l, m>> \in E
  BY <1>2 DEF Predecessors
<1>. HIDE DEF E
<1>4. Predecessors(g, n) \subseteq U /\ Closed(E, U)
  BY <1>2, UpstreamClosed
<1>5. \A m \in U : NetResistance(o, m) = 0
  BY DEF Shielded, E
<1>. HIDE DEF U
<1>6. Free(o, g, n)
  <2>1. ASSUME NEW i \in DriversOf(g, n), NEW m \in ToSet(g.inst[i].ins) PROVE <<m, n>> \in E
    BY <1>1, EdgeFacts DEF DriversOf, E
  <2>. QED BY <1>3, <1>4, <1>5, <2>1 DEF Free
<1>7. ASSUME NEW m, <<m, n>> \in E PROVE Shielded(o, g, m)
  <2>1. m \in U
    BY <1>3, <1>4, <1>7
  <2>2. Predecessors(g, m) \subseteq U
    <3>1. ASSUME NEW l \in Predecessors(g, m) PROVE l \in U
      <4>1. <<l, m>> \in E
        BY <1>3, <3>1
      <4>. QED BY <1>4, <2>1, <4>1 DEF Closed
    <3>. QED BY <3>1
  <2>3. Upstream(E, Predecessors(g, m)) \subseteq U
    BY <1>2, <1>4, <2>2, UpstreamLeast
  <2>. QED BY <1>5, <2>3 DEF Shielded, E
<1>. QED BY <1>6, <1>7 DEF E

\* Where no resistance is upstream the rows a graph asks for are unique.
LEMMA FixUnique ==
  ASSUME NEW o \in Owners, NEW g, GraphType(g), Ordered(g), NEW a, NEW b, Fix(o, g, a), Fix(o, g, b)
  PROVE  \A n \in 1..g.nets : Shielded(o, g, n) => a[n] = b[n]
<1>. DEFINE S == {k \in 1..g.nets : Shielded(o, g, g.order[k]) /\ a[g.order[k]] # b[g.order[k]]}
<1>1. ASSUME S # {} PROVE FALSE
  <2>1. PICK k \in S : \A j \in S : k <= j
    <3>1. S \in SUBSET Nat
      BY DEF GraphType
    <3>. HIDE DEF S
    <3>. QED BY <1>1, <3>1, LeastNumber
  <2>2. k \in 1..g.nets /\ g.order[k] \in 1..g.nets /\ g.nets \in Nat
    BY OrderFacts
  <2>. DEFINE n == g.order[k]
  <2>3. Free(o, g, n) /\ \A m : <<m, n>> \in Edges(g) => Shielded(o, g, m)
    BY <2>1, ShieldedFacts
  <2>4. ASSUME NEW i \in DriversOf(g, n), NEW m \in ToSet(g.inst[i].ins) PROVE a[m] = b[m]
    <3>1. i \in Gates(g) /\ g.inst[i].out = n /\ i \in Present(g) /\ InstType(g.inst, g.nets)
      BY DEF DriversOf, Gates, GraphType
    <3>2. <<m, n>> \in Edges(g) /\ m \in 1..g.nets
      BY <3>1, EdgeFacts, PresentFacts
    <3>3. PICK j \in 1..g.nets : g.order[j] = m
      BY <3>2 DEF Ordered
    <3>4. j < k
      BY <2>2, <3>2, <3>3 DEF Ordered
    <3>5. Shielded(o, g, g.order[j])
      BY <2>3, <3>2, <3>3
    <3>6. j \notin S
      <4>. HIDE DEF S
      <4>. QED BY <2>1, <2>2, <3>4
    <3>. QED BY <3>3, <3>5, <3>6
  <2>5. PropagateSlots(o, g, a, n) = PropagateSlots(o, g, b, n)
    BY <2>4, SlotsDependOnInputs DEF SameInputs
  <2>6. a[n] = b[n]
    BY <2>2, <2>3, <2>5 DEF Fix
  <2>. QED BY <2>1, <2>6
<1>2. ASSUME NEW n \in 1..g.nets, Shielded(o, g, n) PROVE a[n] = b[n]
  <2>1. PICK k \in 1..g.nets : g.order[k] = n
    BY DEF Ordered
  <2>. QED BY <1>1, <1>2, <2>1
<1>. QED BY <1>2

\* Looking for a loop through the edges that go against some numbering of the
\* nets finds every loop: on a loop the edge that leaves the net with the
\* greatest number goes against it.
LEMMA SuspectsSuffice ==
  ASSUME NEW n \in Nat, NEW edges \in SUBSET ((1..n) \X (1..n)), IsFiniteSet(edges),
         NEW K \in Nat, NEW r \in [1..n -> 1..K],
         \A x, y : <<x, y>> \in edges => r[x] < r[y] \/ y \notin Upstream(edges, {x}),
         NEW a, NEW b, <<a, b>> \in edges
  PROVE  b \notin Upstream(edges, {a})
<1>1. ASSUME b \in Upstream(edges, {a}) PROVE FALSE
  <2>. DEFINE C == {m \in 1..n : m \in Upstream(edges, {a}) /\ a \in Upstream(edges, {m})}
              D == {K - r[m] : m \in C}
  <2>1. a \in C /\ b \in C
    BY <1>1, UpstreamEdge
  <2>2. D # {} /\ D \in SUBSET Nat
    <3>1. \A m \in C : r[m] \in 1..K
      OBVIOUS
    <3>. HIDE DEF C
    <3>. QED BY <2>1, <3>1
  <2>3. PICK d \in D : \A x \in D : d <= x
    <3>. HIDE DEF D
    <3>. QED BY <2>2, LeastNumber
  <2>4. PICK m \in C : d = K - r[m]
    BY <2>3
  <2>5. \A x \in C : r[x] <= r[m] /\ r[x] \in Int
    <3>1. \A x \in C : K - r[x] \in D
      OBVIOUS
    <3>2. \A x \in C : r[x] \in 1..K
      OBVIOUS
    <3>. HIDE DEF C, D
    <3>3. SUFFICES ASSUME NEW x \in C PROVE r[x] <= r[m] /\ r[x] \in Int
      OBVIOUS
    <3>4. K - r[m] <= K - r[x] /\ r[x] \in 1..K /\ r[m] \in 1..K
      BY <2>3, <2>4, <3>1, <3>2
    <3>. QED BY <3>4
  <2>6. \E y \in C : <<m, y>> \in edges
    <3>1. CASE m = a
      BY <2>1, <3>1
    <3>2. CASE m # a
      <4>1. PICK e \in edges : e[1] = m /\ e[2] \in Upstream(edges, {a})
        BY <3>2, UpstreamNext
      <4>. DEFINE y == e[2]
      <4>2. <<m, y>> \in edges /\ y \in 1..n /\ y \in Upstream(edges, {a})
        <5>1. e \in (1..n) \X (1..n)
          OBVIOUS
        <5>2. e = <<e[1], e[2]>> /\ e[2] \in 1..n
          BY <5>1
        <5>. QED BY <4>1, <5>2
      <4>. HIDE DEF y
      <4>3. m \in Upstream(edges, {y})
        BY <4>2, UpstreamEdge
      <4>4. a \in Upstream(edges, {m})
        OBVIOUS
      <4>5. a \in Upstream(edges, {y})
        BY <4>3, <4>4, UpstreamTransitive
      <4>. QED BY <4>2, <4>5
    <3>. QED BY <3>1, <3>2
  <2>7. PICK y \in C : <<m, y>> \in edges
    BY <2>6
  <2>8. ~(r[m] < r[y])
    <3>. HIDE DEF C
    <3>. QED BY <2>4, <2>5, <2>7
  <2>9. y \in Upstream(edges, {m})
    BY <2>7, UpstreamTransitive
  <2>. QED BY <2>7, <2>8, <2>9
<1>. QED BY <1>1

\* Without a loop the number of nets upstream of a net orders the nets.
LEMMA PlacesExist ==
  ASSUME NEW n \in Nat, NEW edges \in SUBSET ((1..n) \X (1..n)), IsFiniteSet(edges),
         \A a, b : <<a, b>> \in edges => b \notin Upstream(edges, {a})
  PROVE  \E place \in [1..n -> 1..n] : \A e \in edges : place[e[1]] < place[e[2]]
<1>. DEFINE Up(a) == Upstream(edges, {a})
            place == [a \in 1..n |-> Cardinality(Up(a))]
<1>1. IsFiniteSet(1..n) /\ Cardinality(1..n) = n
  <2>1. 1 \in Int /\ n \in Int
    OBVIOUS
  <2>. QED BY <2>1, FS_Interval
<1>2. ASSUME NEW a \in 1..n
      PROVE  Up(a) \in SUBSET (1..n) /\ a \in Up(a)
  <2>1. Closed(edges, 1..n)
    BY DEF Closed
  <2>. QED BY <2>1, UpstreamLeast, UpstreamClosed
<1>. HIDE DEF Up
<1>3. \A a \in 1..n : IsFiniteSet(Up(a)) /\ Cardinality(Up(a)) \in 1..n
  <2>1. ASSUME NEW a \in 1..n PROVE IsFiniteSet(Up(a)) /\ Cardinality(Up(a)) \in 1..n
    <3>1. IsFiniteSet(Up(a)) /\ Cardinality(Up(a)) <= n
      BY <1>1, <1>2, FS_Subset
    <3>2. Cardinality(Up(a)) \in Nat
      BY <3>1, FS_CardinalityType
    <3>3. Cardinality(Up(a)) # 0
      BY <1>2, <3>1, FS_EmptySet
    <3>. QED BY <3>1, <3>2, <3>3
  <2>. QED BY <2>1
<1>4. ASSUME NEW e \in edges PROVE place[e[1]] < place[e[2]]
  <2>1. e[1] \in 1..n /\ e[2] \in 1..n /\ <<e[1], e[2]>> \in edges
    OBVIOUS
  <2>2. e[1] \in Up(e[2])
    <3>. DEFINE c == e[1]
                d == e[2]
    <3>1. <<c, d>> \in edges
      BY <2>1
    <3>. HIDE DEF c, d
    <3>2. c \in Upstream(edges, {d})
      BY <3>1, UpstreamEdge
    <3>. QED BY <3>2 DEF Up, c, d
  <2>3. Up(e[1]) \in SUBSET Up(e[2])
    <3>1. Closed(edges, Up(e[2])) /\ {e[1]} \subseteq Up(e[2])
      BY <2>2, UpstreamClosed DEF Up
    <3>. QED BY <3>1, UpstreamLeast DEF Up
  <2>4. e[2] \notin Up(e[1]) /\ e[2] \in Up(e[2])
    BY <1>2, <2>1 DEF Up
  <2>5. /\ Cardinality(Up(e[1])) <= Cardinality(Up(e[2]))
        /\ Cardinality(Up(e[1])) # Cardinality(Up(e[2]))
    <3>1. IsFiniteSet(Up(e[2])) /\ Up(e[2]) # Up(e[1])
      BY <1>3, <2>1, <2>4
    <3>. QED BY <2>3, <3>1, FS_Subset
  <2>6. Cardinality(Up(e[1])) \in Nat /\ Cardinality(Up(e[2])) \in Nat
    BY <1>3, <2>1
  <2>7. Cardinality(Up(e[1])) < Cardinality(Up(e[2]))
    BY <2>5, <2>6
  <2>. QED BY <2>1, <2>7
<1>5. place \in [1..n -> 1..n]
  BY <1>3
<1>. QED BY <1>4, <1>5

-----------------------------------------------------------------------------
(***************************************************************************)
(* The topological order.                                                  *)
(***************************************************************************)

ReadyNets(g, s) == {n \in Nets(g) \ ToSet(s) : \A e \in Edges(g) : e[2] = n => e[1] \in ToSet(s)}
Placing(g, s) == IF ReadyNets(g, s) = {} THEN s ELSE Append(s, Min(ReadyNets(g, s)))

\* The next net is a ready one.
LEMMA PlacingFacts ==
  ASSUME NEW g, g.nets \in Nat, NEW s \in Seq(1..g.nets)
  PROVE  /\ Placing(g, s) \in Seq(1..g.nets)
         /\ ReadyNets(g, s) # {} => \E n \in ReadyNets(g, s) : n \in 1..g.nets /\ Placing(g, s) = Append(s, n)
<1>. DEFINE S == ReadyNets(g, s)
<1>1. S \in SUBSET (1..g.nets) /\ S \in SUBSET Nat
  BY DEF ReadyNets, Nets
<1>2. ASSUME S # {} PROVE Min(S) \in S
  <2>. HIDE DEF S
  <2>1. \E x \in S : \A y \in S : x <= y
    BY <1>1, <1>2, LeastNumber
  <2>. QED BY <2>1 DEF Min
<1>. HIDE DEF S
<1>3. Placing(g, s) = IF S = {} THEN s ELSE Append(s, Min(S))
  BY DEF Placing, S
<1>4. CASE S = {}
  BY <1>3, <1>4 DEF S
<1>5. CASE S # {}
  <2>1. Min(S) \in S /\ Min(S) \in 1..g.nets
    BY <1>1, <1>2, <1>5
  <2>. DEFINE m == Min(S)
  <2>2. Placing(g, s) = Append(s, m) /\ m \in S /\ m \in 1..g.nets
    BY <1>3, <1>5, <2>1
  <2>. HIDE DEF m
  <2>3. Append(s, m) \in Seq(1..g.nets)
    BY <2>2
  <2>. QED BY <2>2, <2>3 DEF S
<1>. QED BY <1>4, <1>5

\* The recursive definition has a solution, so it is one.
LEMMA PlacedSteps ==
  ASSUME NEW g, g.nets \in Nat
  PROVE  \E placed : /\ TopologicalOrder(g) = placed[g.nets] /\ placed[0] = <<>>
                     /\ \A k \in 1..g.nets : placed[k] = Placing(g, placed[k - 1])
<1>. DEFINE N == g.nets
            placed[k \in 0..N] ==
              IF k = 0 THEN <<>>
              ELSE LET done == ToSet(placed[k - 1])
                       ready == {n \in Nets(g) \ done :
                                   \A e \in Edges(g) : e[2] = n => e[1] \in done}
                   IN  IF ready = {} THEN placed[k - 1] ELSE Append(placed[k - 1], Min(ready))
            V == Seq(1..g.nets)
            step == [k \in 1..N |-> [s \in V |-> Placing(g, s)]]
<1>1. N \in Nat
  OBVIOUS
<1>2. <<>> \in V
  OBVIOUS
<1>3. step \in [1..N -> [V -> V]]
  <2>1. ASSUME NEW s \in V PROVE Placing(g, s) \in V
    BY PlacingFacts
  <2>. HIDE DEF V
  <2>. QED BY <2>1
<1>4. PICK f \in [0..N -> V] : f[0] = <<>> /\ \A k \in 1..N : f[k] = step[k][f[k - 1]]
  <2>. HIDE DEF step, N, V
  <2>1. IsRecursion(N, V, <<>>, step)
    BY <1>1, <1>2, <1>3 DEF IsRecursion
  <2>2. Solutions(N, V, <<>>, step) # {}
    BY <2>1, RecursionExists
  <2>. QED BY <2>2 DEF Solutions
<1>5. f = [k \in 0..N |-> IF k = 0 THEN <<>> ELSE Placing(g, f[k - 1])]
  <2>1. ASSUME NEW k \in 1..N PROVE f[k] = Placing(g, f[k - 1])
    <3>1. f[k - 1] \in V
      <4>. HIDE DEF V, N
      <4>. QED BY <1>1, <1>4
    <3>2. f[k] = step[k][f[k - 1]]
      BY <1>4
    <3>. HIDE DEF V, N
    <3>. QED BY <3>1, <3>2
  <2>. HIDE DEF N, V
  <2>. QED BY <1>1, <1>4, <2>1
<1>6. placed = [k \in 0..N |-> IF k = 0 THEN <<>> ELSE Placing(g, placed[k - 1])]
  <2>1. placed = CHOOSE h : h = [k \in 0..N |-> IF k = 0 THEN <<>> ELSE Placing(g, h[k - 1])]
    BY DEF placed, Placing, ReadyNets
  <2>. HIDE DEF placed
  <2>. QED BY <1>5, <2>1
<1>7. TopologicalOrder(g) = placed[N]
  BY DEF TopologicalOrder
<1>. HIDE DEF placed, N
<1>8. placed[0] = <<>> /\ \A k \in 1..N : placed[k] = Placing(g, placed[k - 1])
  BY <1>1, <1>6
<1>. QED BY <1>7, <1>8 DEF N

\* What holds of the first k nets that are placed.
Placed(g, k, s) ==
    /\ s \in Seq(1..g.nets) /\ Len(s) = k
    /\ \A i, j \in 1..k : s[i] = s[j] => i = j
    /\ \A j \in 1..k : \A a : <<a, s[j]>> \in Edges(g) => \E i \in 1..k : i < j /\ s[i] = a

\* As long as a net is missing one is ready: the missing one with the least
\* place.
LEMMA SomeReady ==
  ASSUME NEW g, GraphType(g), Acyclic(g.inst, g.nets),
         NEW k \in 1..g.nets, NEW s, Placed(g, k - 1, s)
  PROVE  ReadyNets(g, s) # {}
<1>1. s \in Seq(1..g.nets) /\ Len(s) = k - 1 /\ g.nets \in Nat
  BY DEF Placed, GraphType
<1>2. IsInjective(s)
  BY <1>1 DEF Placed, IsInjective
<1>3. IsFiniteSet(ToSet(s)) /\ Cardinality(ToSet(s)) = k - 1
  BY <1>1, <1>2, ToSetCardinality
<1>. DEFINE left == (1..g.nets) \ ToSet(s)
<1>4. left # {}
  <2>2. Cardinality(1..g.nets) = g.nets
    <3>. DEFINE c == g.nets
    <3>1. 1 \in Int /\ c \in Int /\ c \in Nat /\ ~(1 > c)
      BY <1>1
    <3>. HIDE DEF c
    <3>2. Cardinality(1..c) = c - 1 + 1
      BY <3>1, FS_Interval
    <3>3. Cardinality(1..c) = c
      BY <3>1, <3>2
    <3>. QED BY <3>3 DEF c
  <2>3. ASSUME 1..g.nets \in SUBSET ToSet(s) PROVE FALSE
    <3>1. Cardinality(1..g.nets) <= Cardinality(ToSet(s))
      BY <1>3, <2>3, FS_Subset
    <3>. QED BY <1>1, <1>3, <2>2, <3>1
  <2>. QED BY <2>3
<1>5. PICK place \in [1..g.nets -> 1..g.nets] :
          \A e \in Edges([inst |-> g.inst]) : place[e[1]] < place[e[2]]
  BY DEF Acyclic
<1>6. Edges([inst |-> g.inst]) = Edges(g)
  BY DEF Edges, Gates, Present
<1>. DEFINE P == {place[n] : n \in left}
<1>7. P # {} /\ P \in SUBSET Nat
  <2>1. \A n \in left : place[n] \in Nat
    <3>1. \A n \in 1..g.nets : place[n] \in 1..g.nets
      BY <1>5
    <3>2. \A n \in left : n \in 1..g.nets
      BY DEF Nets
    <3>. HIDE DEF left
    <3>. QED BY <3>1, <3>2
  <2>. HIDE DEF left
  <2>. QED BY <1>4, <2>1
<1>8. PICK p \in P : \A q \in P : p <= q
  <2>. HIDE DEF P
  <2>. QED BY <1>7, LeastNumber
<1>9. PICK n \in left : p = place[n]
  BY <1>8
<1>10. ASSUME NEW e \in Edges(g), e[2] = n PROVE e[1] \in ToSet(s)
  <2>1. e[1] \in 1..g.nets /\ place[e[1]] < place[n]
    <3>1. e \in (1..g.nets) \X (1..g.nets)
      BY EdgeFacts DEF GraphType
    <3>. QED BY <1>5, <1>6, <1>10, <3>1
  <2>2. ASSUME e[1] \in left PROVE FALSE
    <3>1. place[e[1]] \in P
      BY <2>2
    <3>2. place[n] <= place[e[1]]
      BY <1>8, <1>9, <3>1
    <3>3. place[n] \in Int /\ place[e[1]] \in Int
      BY <2>1
    <3>. QED BY <2>1, <3>2, <3>3
  <2>. QED BY <2>1, <2>2
<1>11. n \in ReadyNets(g, s)
  BY <1>9, <1>10 DEF ReadyNets, Nets
<1>. QED BY <1>11

\* What is derived from the instances alone.
LEMMA SameInstances ==
  ASSUME NEW g, NEW h, g.inst = h.inst
  PROVE  /\ Present(g) = Present(h) /\ Gates(g) = Gates(h) /\ Flops(g) = Flops(h)
         /\ Edges(g) = Edges(h)
         /\ \A n : DriversOf(g, n) = DriversOf(h, n) /\ LaunchersOf(g, n) = LaunchersOf(h, n)
<1>1. Present(g) = Present(h)
  BY DEF Present
<1>2. Gates(g) = Gates(h) /\ Flops(g) = Flops(h)
  BY <1>1 DEF Gates, Flops
<1>3. Edges(g) = Edges(h)
  BY <1>2 DEF Edges
<1>4. \A n : DriversOf(g, n) = DriversOf(h, n) /\ LaunchersOf(g, n) = LaunchersOf(h, n)
  BY <1>2 DEF DriversOf, LaunchersOf
<1>. QED BY <1>1, <1>2, <1>3, <1>4

\* One more net is placed.
LEMMA PlacedStep ==
  ASSUME NEW g, GraphType(g), Acyclic(g.inst, g.nets),
         NEW k \in 1..g.nets, NEW s, Placed(g, k - 1, s)
  PROVE  Placed(g, k, Placing(g, s))
<1>1. s \in Seq(1..g.nets) /\ Len(s) = k - 1 /\ g.nets \in Nat
  BY DEF Placed, GraphType
<1>2. PICK n \in ReadyNets(g, s) : n \in 1..g.nets /\ Placing(g, s) = Append(s, n)
  BY <1>1, SomeReady, PlacingFacts
<1>. DEFINE t == Append(s, n)
<1>3. /\ t \in Seq(1..g.nets) /\ Len(t) = k /\ t[k] = n
      /\ \A j \in 1..k : j # k => j \in 1..(k - 1) /\ t[j] = s[j]
  BY <1>1, <1>2
<1>4. ToSet(s) = {s[j] : j \in 1..(k - 1)}
  BY <1>1, ToSetByPosition
<1>. HIDE DEF t
<1>5. ASSUME NEW i \in 1..k, NEW j \in 1..k, t[i] = t[j] PROVE i = j
  <2>1. n \notin ToSet(s)
    BY <1>2 DEF ReadyNets
  <2>2. \A l \in 1..(k - 1) : s[l] # n
    BY <1>4, <2>1
  <2>. QED BY <1>3, <1>5, <2>2 DEF Placed
<1>6. ASSUME NEW j \in 1..k, NEW a, <<a, t[j]>> \in Edges(g)
      PROVE  \E i \in 1..k : i < j /\ t[i] = a
  <2>1. CASE j = k
    <3>1. a \in ToSet(s)
      <4>. DEFINE e == <<a, t[j]>>
      <4>1. e \in Edges(g) /\ e[2] = n /\ e[1] = a
        BY <1>3, <1>6, <2>1
      <4>. HIDE DEF e
      <4>. QED BY <1>2, <4>1 DEF ReadyNets
    <3>2. PICK i \in 1..(k - 1) : s[i] = a
      BY <1>4, <3>1
    <3>3. i \in 1..k /\ i < k /\ t[i] = a
      BY <1>3, <3>2
    <3>. QED BY <2>1, <3>3
  <2>2. CASE j # k
    <3>1. j \in 1..(k - 1) /\ <<a, s[j]>> \in Edges(g)
      BY <1>3, <1>6, <2>2
    <3>2. PICK i \in 1..(k - 1) : i < j /\ s[i] = a
      BY <3>1 DEF Placed
    <3>3. i \in 1..k /\ t[i] = a
      BY <1>3, <3>2
    <3>. QED BY <3>2, <3>3
  <2>. QED BY <2>1, <2>2
<1>7. Placed(g, k, t)
  BY <1>3, <1>5, <1>6 DEF Placed
<1>. QED BY <1>2, <1>7 DEF t

\* The order of a graph without a loop.
LEMMA TopologicalFacts ==
  ASSUME NEW g, GraphType(g), Acyclic(g.inst, g.nets)
  PROVE  Placed(g, g.nets, TopologicalOrder(g))
<1>1. g.nets \in Nat
  BY DEF GraphType
<1>2. PICK placed : /\ TopologicalOrder(g) = placed[g.nets] /\ placed[0] = <<>>
                    /\ \A k \in 1..g.nets : placed[k] = Placing(g, placed[k - 1])
  BY <1>1, PlacedSteps
<1>. DEFINE S == {k \in 0..g.nets : Placed(g, k, placed[k])}
<1>3. 0 \in S
  <2>1. <<>> \in Seq(1..g.nets) /\ Len(<<>>) = 0 /\ 0 \in 0..g.nets
    BY <1>1
  <2>2. Placed(g, 0, <<>>)
    BY <2>1 DEF Placed
  <2>. QED BY <1>2, <2>1, <2>2
<1>4. ASSUME NEW k \in 1..g.nets, k - 1 \in S PROVE k \in S
  <2>1. Placed(g, k, Placing(g, placed[k - 1]))
    BY <1>4, PlacedStep
  <2>. QED BY <1>1, <1>2, <2>1
<1>5. 0..g.nets \subseteq S
  <2>. HIDE DEF S
  <2>. QED BY <1>1, <1>3, <1>4, PositionInduction
<1>6. g.nets \in S
  <2>. HIDE DEF S
  <2>. QED BY <1>1, <1>5
<1>. QED BY <1>2, <1>6

\* It lists every net.
LEMMA PlacedAll ==
  ASSUME NEW g, g.nets \in Nat, NEW s, Placed(g, g.nets, s)
  PROVE  \A n \in 1..g.nets : \E k \in 1..g.nets : s[k] = n
<1>. DEFINE c == g.nets
<1>1. s \in Seq(1..c) /\ Len(s) = c /\ IsInjective(s)
  <2>1. s \in Seq(1..c) /\ Len(s) = c /\ \A i, j \in 1..c : s[i] = s[j] => i = j
    BY DEF Placed
  <2>2. DOMAIN s = 1..c
    BY <2>1, LenProperties
  <2>. HIDE DEF c
  <2>3. IsInjective(s)
    BY <2>1, <2>2 DEF IsInjective
  <2>. QED BY <2>1, <2>3
<1>2. c \in Nat
  OBVIOUS
<1>. HIDE DEF c
<1>3. IsFiniteSet(ToSet(s)) /\ Cardinality(ToSet(s)) = c /\ ToSet(s) \in SUBSET (1..c)
      /\ ToSet(s) = {s[k] : k \in 1..c}
  BY <1>1, ToSetCardinality, ToSetByPosition
<1>4. 1 \in Int /\ c \in Int
  BY <1>2
<1>5. IsFiniteSet(1..c) /\ Cardinality(1..c) = IF 1 > c THEN 0 ELSE c - 1 + 1
  BY <1>4, FS_Interval
<1>6. Cardinality(1..c) = c
  BY <1>2, <1>5
<1>7. ToSet(s) = 1..c
  BY <1>3, <1>5, <1>6, FS_Subset
<1>. QED BY <1>3, <1>7 DEF c

\* An order that is not stale is one of the present graph, and so is the plan.
OrderKept(g) == g.stale = FALSE => Ordered(g) /\ g.plan = Edges(g)
SameGraph(g, h) == h.inst = g.inst /\ h.nets = g.nets /\ h.load = g.load

\* Bringing the order up to date.
LEMMA EnsureFacts ==
  ASSUME NEW g, GraphType(g), Acyclic(g.inst, g.nets), OrderKept(g)
  PROVE  LET h == EnsureTopologicalOrder(g) IN
         /\ GraphType(h) /\ SameGraph(g, h) /\ h.stale = FALSE
         /\ Ordered(h) /\ h.plan = Edges(h)
<1>. DEFINE h == EnsureTopologicalOrder(g)
<1>1. CASE g.stale = FALSE
  <2>1. h = g
    BY <1>1 DEF EnsureTopologicalOrder
  <2>. HIDE DEF h
  <2>2. GraphType(h) /\ SameGraph(g, h) /\ h.stale = FALSE /\ Ordered(h) /\ h.plan = Edges(h)
    BY <1>1, <2>1 DEF OrderKept, SameGraph
  <2>. QED BY <2>2 DEF h
<1>2. CASE g.stale = TRUE
  <2>. DEFINE s == TopologicalOrder(g)
              p == Edges(g)
  <2>1. h = [g EXCEPT !.order = s, !.plan = p, !.stale = FALSE, !.generation = @ + 1]
    BY <1>2 DEF EnsureTopologicalOrder
  <2>. HIDE DEF s, p
  <2>2. h = [inst |-> g.inst, nets |-> g.nets, load |-> g.load, order |-> s,
             plan |-> p, stale |-> FALSE, generation |-> g.generation + 1]
    BY <2>1 DEF GraphType, GraphShape
  <2>. HIDE DEF h
  <2>3. /\ h.inst = g.inst /\ h.nets = g.nets /\ h.load = g.load /\ h.order = s
        /\ h.plan = p /\ h.stale = FALSE /\ h.generation = g.generation + 1
    BY <2>2
  <2>4. GraphType(h)
    BY <2>2, <2>3 DEF GraphType, GraphShape
  <2>5. Edges(h) = Edges(g)
    BY <2>3, SameInstances
  <2>6. Placed(g, g.nets, s) /\ g.nets \in Nat
    BY TopologicalFacts DEF s, GraphType
  <2>7. Ordered(h)
    <3>1. /\ s \in Seq(1..g.nets) /\ Len(s) = g.nets
          /\ \A i, j \in 1..g.nets : s[i] = s[j] => i = j
      BY <2>6 DEF Placed
    <3>2. \A n \in 1..g.nets : \E k \in 1..g.nets : s[k] = n
      BY <2>6, PlacedAll
    <3>3. ASSUME NEW j \in 1..g.nets, NEW k \in 1..g.nets, <<s[j], s[k]>> \in Edges(g) PROVE j < k
      <4>1. PICK i \in 1..g.nets : i < k /\ s[i] = s[j]
        BY <2>6, <3>3 DEF Placed
      <4>. QED BY <3>1, <4>1
    <3>. QED BY <2>3, <2>5, <3>1, <3>2, <3>3 DEF Ordered
  <2>8. GraphType(h) /\ SameGraph(g, h) /\ h.stale = FALSE /\ Ordered(h) /\ h.plan = Edges(h)
    BY <2>3, <2>4, <2>5, <2>7 DEF SameGraph, p
  <2>. QED BY <2>8 DEF h
<1>. QED BY <1>1, <1>2 DEF GraphType

-----------------------------------------------------------------------------
(***************************************************************************)
(* Loads.                                                                  *)
(***************************************************************************)

\* What one instance of a region adds to the load of a net.
Share(o, inst, region, direction, k, n) ==
    IF k \in region THEN direction * PinLoad(o, inst[k], n) ELSE 0

\* The loads after the first instances, for each count of them.
LoadsBy(o, load, inst, region, direction, count, f) ==
    /\ f \in [0..Cardinality(Ids) -> [1..count -> Int]] /\ f[0] = load
    /\ \A k \in 1..Cardinality(Ids), n \in 1..count :
          f[k][n] = f[k - 1][n] + Share(o, inst, region, direction, k, n)

\* A pin load is a number, and zero where the instance has no pin.
LEMMA PinFacts ==
  ASSUME NEW o \in Owners, NEW x \in Instances, NEW n
  PROVE  PinLoad(o, x, n) \in Int /\ (n \notin InstanceNets(x) => PinLoad(o, x, n) = 0)
<1>1. CASE x = Absent
  BY <1>1 DEF PinLoad
<1>2. CASE x # Absent
  <2>. DEFINE pins == {k \in DOMAIN x.ins : x.ins[k] = n}
              cap == Library[o][x.cell].cap
  <2>1. PinLoad(o, x, n) = cap * Cardinality(pins)
    BY <1>2 DEF PinLoad
  <2>2. cap \in Int
    BY <1>2, InstanceFacts, LibraryAssumption
  <2>3. IsFiniteSet(pins)
    <3>1. IsFiniteSet(DOMAIN x.ins) /\ pins \in SUBSET DOMAIN x.ins
      BY <1>2, InstanceFacts
    <3>. HIDE DEF pins
    <3>. QED BY <3>1, FS_Subset
  <2>4. ASSUME n \notin InstanceNets(x) PROVE pins = {}
    <3>1. \A k \in DOMAIN x.ins : x.ins[k] \in InstanceNets(x)
      BY <1>2 DEF InstanceNets, ToSet
    <3>. QED BY <2>4, <3>1
  <2>. HIDE DEF pins, cap
  <2>5. Cardinality(pins) \in Nat /\ (pins = {} => Cardinality(pins) = 0)
    BY <2>3, FS_CardinalityType, FS_EmptySet
  <2>6. cap * Cardinality(pins) \in Int /\ cap * 0 = 0
    BY <2>2, <2>5
  <2>. QED BY <2>1, <2>4, <2>5, <2>6
<1>. QED BY <1>1, <1>2

\* The recursive definition has a solution, so it is one.
LEMMA LoadSteps ==
  ASSUME NEW o \in Owners, NEW count \in Nat, NEW load \in [1..count -> Int], NEW inst,
         NEW region \in SUBSET Ids, \A i \in region : inst[i] \in Instances, NEW direction \in Int
  PROVE  \E f : /\ AdjustRegionLoads(o, load, inst, region, direction) = f[Cardinality(Ids)]
                /\ LoadsBy(o, load, inst, region, direction, count, f)
<1>. DEFINE N == Cardinality(Ids)
            adjusted[i \in 0..N] ==
              IF i = 0 THEN load
              ELSE IF i \notin region THEN adjusted[i - 1]
              ELSE AdjustInstanceLoads(o, adjusted[i - 1], inst[i], direction)
            V == [1..count -> Int]
            Step(l, i) == IF i \notin region THEN l ELSE AdjustInstanceLoads(o, l, inst[i], direction)
            step == [k \in 1..N |-> [l \in V |-> Step(l, k)]]
<1>1. N \in Nat
  BY DesignAssumption, FS_CardinalityType
<1>2. ASSUME NEW l \in V, NEW k
      PROVE  Step(l, k) \in V /\ \A n \in 1..count : Step(l, k)[n] = l[n] + Share(o, inst, region, direction, k, n)
  <2>1. CASE k \notin region
    <3>1. \A n \in 1..count : l[n] \in Int
      OBVIOUS
    <3>. QED BY <2>1, <3>1 DEF Share
  <2>2. CASE k \in region
    <3>1. \A n : PinLoad(o, inst[k], n) \in Int
      BY <2>2, PinFacts
    <3>2. \A n : direction * PinLoad(o, inst[k], n) \in Int
      BY <3>1
    <3>3. Step(l, k) = [n \in 1..count |-> l[n] + direction * PinLoad(o, inst[k], n)]
      BY <2>2 DEF AdjustInstanceLoads
    <3>4. \A n \in 1..count : l[n] + direction * PinLoad(o, inst[k], n) \in Int
      BY <3>2
    <3>. HIDE DEF Step
    <3>. QED BY <2>2, <3>3, <3>4 DEF Share
  <2>. QED BY <2>1, <2>2
<1>. HIDE DEF Step
<1>3. step \in [1..N -> [V -> V]]
  <2>. HIDE DEF V
  <2>. QED BY <1>2
<1>4. PICK f \in [0..N -> V] : f[0] = load /\ \A k \in 1..N : f[k] = step[k][f[k - 1]]
  <2>0. load \in V
    OBVIOUS
  <2>. HIDE DEF step, N, V
  <2>1. IsRecursion(N, V, load, step)
    BY <1>1, <1>3, <2>0 DEF IsRecursion
  <2>2. Solutions(N, V, load, step) # {}
    BY <2>1, RecursionExists
  <2>. QED BY <2>2 DEF Solutions
<1>5. \A k \in 1..N : f[k - 1] \in V /\ f[k] = Step(f[k - 1], k)
  <2>. SUFFICES ASSUME NEW k \in 1..N PROVE f[k - 1] \in V /\ f[k] = Step(f[k - 1], k)
    OBVIOUS
  <2>. HIDE DEF V, N
  <2>1. f[k - 1] \in V
    BY <1>1, <1>4
  <2>2. f[k] = step[k][f[k - 1]]
    BY <1>4
  <2>. QED BY <2>1, <2>2
<1>6. f = [k \in 0..N |-> IF k = 0 THEN load ELSE Step(f[k - 1], k)]
  <2>. HIDE DEF N, V
  <2>. QED BY <1>1, <1>4, <1>5
<1>7. adjusted = f
  <2>1. adjusted = CHOOSE h : h = [k \in 0..N |-> IF k = 0 THEN load ELSE Step(h[k - 1], k)]
    BY DEF adjusted, Step
  <2>. HIDE DEF adjusted
  <2>2. adjusted = [k \in 0..N |-> IF k = 0 THEN load ELSE Step(adjusted[k - 1], k)]
    BY <1>6, <2>1
  <2>. DEFINE S == {k \in 0..N : adjusted[k] = f[k]}
  <2>3. 0 \in S
    <3>. HIDE DEF N
    <3>. QED BY <1>1, <1>4, <2>2
  <2>4. ASSUME NEW k \in 1..N, k - 1 \in S PROVE k \in S
    <3>. HIDE DEF N
    <3>. QED BY <1>1, <1>5, <2>2, <2>4
  <2>5. 0..N \subseteq S
    <3>. HIDE DEF N, S
    <3>. QED BY <1>1, <2>3, <2>4, PositionInduction
  <2>6. DOMAIN adjusted = 0..N /\ adjusted = [k \in 0..N |-> adjusted[k]]
    <3>. HIDE DEF N
    <3>. QED BY <2>2
  <2>7. f = [k \in 0..N |-> f[k]]
    <3>. HIDE DEF N, V
    <3>. QED BY <1>4
  <2>8. \A k \in 0..N : adjusted[k] = f[k]
    <3>. HIDE DEF N
    <3>. QED BY <2>5
  <2>. HIDE DEF N
  <2>. QED BY <2>6, <2>7, <2>8
<1>8. AdjustRegionLoads(o, load, inst, region, direction) = adjusted[N]
  BY DEF AdjustRegionLoads
<1>9. LoadsBy(o, load, inst, region, direction, count, f)
  <2>1. \A k \in 1..N, n \in 1..count : f[k][n] = f[k - 1][n] + Share(o, inst, region, direction, k, n)
    <3>. HIDE DEF V
    <3>. QED BY <1>2, <1>5
  <2>. QED BY <1>4, <2>1 DEF LoadsBy
<1>. HIDE DEF adjusted, N
<1>. QED BY <1>7, <1>8, <1>9 DEF N

\* Loads that are put on one net at a time.
LEMMA LoadsResult ==
  ASSUME NEW o \in Owners, NEW count \in Nat, NEW load \in [1..count -> Int], NEW inst,
         NEW region \in SUBSET Ids, \A i \in region : inst[i] \in Instances, NEW direction \in Int
  PROVE  AdjustRegionLoads(o, load, inst, region, direction) \in [1..count -> Int]
<1>1. PICK f : /\ AdjustRegionLoads(o, load, inst, region, direction) = f[Cardinality(Ids)]
               /\ LoadsBy(o, load, inst, region, direction, count, f)
  BY LoadSteps
<1>2. Cardinality(Ids) \in Nat
  BY DesignAssumption, FS_CardinalityType
<1>. QED BY <1>1, <1>2 DEF LoadsBy

\* The instances after a delta, and that it names instances and at most one new
\* net.
DeltaFits(g, delta) ==
    /\ DOMAIN delta \in SUBSET Ids /\ delta = [i \in DOMAIN delta |-> delta[i]]
    /\ \A i \in DOMAIN delta : delta[i] \in Instances /\ InstanceNets(delta[i]) \subseteq 1..(g.nets + 1)

\* A number of new nets whose rows are alike.
IsGrown(grown, old, count, rows, T, row) ==
    grown \in [1..count -> T] /\ \A n \in 1..count : grown[n] = IF n <= old THEN rows[n] ELSE row

\* Rows that were appended to.
LEMMA GrownFacts ==
  ASSUME NEW old \in Nat, NEW count \in {old, old + 1}, NEW T, NEW row \in T,
         NEW load \in [1..old -> T]
  PROVE  IsGrown(load \o EmptyRows(count - old, row), old, count, load, T, row)
<1>. DEFINE e == EmptyRows(count - old, row)
            grown == load \o e
<1>1. count \in Nat /\ count - old \in Nat /\ e = [n \in 1..(count - old) |-> row]
  BY DEF EmptyRows
<1>2. load \in Seq(T) /\ Len(load) = old
  OBVIOUS
<1>3. e \in Seq(T) /\ Len(e) = count - old
  BY <1>1
<1>4. \A n \in 1..(count - old) : e[n] = row
  BY <1>1
<1>. HIDE DEF e
<1>5. grown \in Seq(T) /\ Len(grown) = count
  BY <1>1, <1>2, <1>3
<1>6. ASSUME NEW n \in 1..count PROVE grown[n] = IF n <= old THEN load[n] ELSE row
  <2>1. CASE n <= old
    BY <1>1, <1>2, <1>3, <2>1
  <2>2. CASE ~(n <= old)
    <3>1. grown[n] = e[n - old] /\ n - old \in 1..(count - old)
      BY <1>1, <1>2, <1>3, <2>2
    <3>. QED BY <1>4, <2>2, <3>1
  <2>. QED BY <2>1, <2>2
<1>7. grown \in [1..count -> T]
  <2>. HIDE DEF grown
  <2>1. grown \in [1..Len(grown) -> T]
    BY <1>5, LenProperties
  <2>. QED BY <1>5, <2>1
<1>8. IsGrown(grown, old, count, load, T, row)
  BY <1>6, <1>7 DEF IsGrown
<1>. QED BY <1>8 DEF e

\* Loads before any pin is put on.
LEMMA EmptyFacts ==
  ASSUME NEW count \in Nat
  PROVE  EmptyRows(count, 0) \in [1..count -> Int] /\ \A n \in 1..count : EmptyRows(count, 0)[n] = 0
BY DEF EmptyRows

\* The loads of all instances, put on from nothing.
LEMMA InstanceLoadSteps ==
  ASSUME NEW o \in Owners, NEW count \in Nat, NEW inst, \A i \in Ids : inst[i] \in Instances
  PROVE  \E f : /\ InstanceLoads(o, inst, count) = f[Cardinality(Ids)]
                /\ LoadsBy(o, EmptyRows(count, 0), inst, Ids, 1, count, f)
<1>. DEFINE e == EmptyRows(count, 0)
<1>1. e \in [1..count -> Int] /\ Ids \in SUBSET Ids /\ 1 \in Int
  BY EmptyFacts
<1>2. InstanceLoads(o, inst, count) = AdjustRegionLoads(o, e, inst, Ids, 1)
  BY DEF InstanceLoads
<1>. HIDE DEF e
<1>3. \E f : /\ AdjustRegionLoads(o, e, inst, Ids, 1) = f[Cardinality(Ids)]
             /\ LoadsBy(o, e, inst, Ids, 1, count, f)
  BY <1>1, LoadSteps
<1>. QED BY <1>2, <1>3 DEF e

\* Functions with the same values are the same.
LEMMA SameValues ==
  ASSUME NEW S, NEW T, NEW f \in [S -> T], NEW h \in [S -> T], \A x \in S : f[x] = h[x]
  PROVE  f = h
OBVIOUS

\* Counting the pins over more nets gives the new ones no load.
LEMMA LoadsGrow ==
  ASSUME NEW o \in Owners, NEW old \in Nat, NEW count \in {old, old + 1}, NEW inst, InstType(inst, old)
  PROVE  InstanceLoads(o, inst, count) = InstanceLoads(o, inst, old) \o EmptyRows(count - old, 0)
<1>. DEFINE N == Cardinality(Ids)
<1>1. N \in Nat /\ Ids = 1..N
  BY DesignAssumption, FS_CardinalityType
<1>2. count \in Nat /\ \A i \in Ids : inst[i] \in Instances /\ InstanceNets(inst[i]) \subseteq 1..old
  BY DEF InstType
<1>3. PICK e : InstanceLoads(o, inst, old) = e[N] /\ LoadsBy(o, EmptyRows(old, 0), inst, Ids, 1, old, e)
  BY <1>2, InstanceLoadSteps
<1>4. PICK f : InstanceLoads(o, inst, count) = f[N] /\ LoadsBy(o, EmptyRows(count, 0), inst, Ids, 1, count, f)
  BY <1>2, InstanceLoadSteps
<1>. HIDE DEF N
<1>5. /\ e \in [0..N -> [1..old -> Int]] /\ e[0] = EmptyRows(old, 0)
      /\ \A k \in 1..N, n \in 1..old : e[k][n] = e[k - 1][n] + Share(o, inst, Ids, 1, k, n)
  BY <1>3 DEF LoadsBy, N
<1>6. /\ f \in [0..N -> [1..count -> Int]] /\ f[0] = EmptyRows(count, 0)
      /\ \A k \in 1..N, n \in 1..count : f[k][n] = f[k - 1][n] + Share(o, inst, Ids, 1, k, n)
  BY <1>4 DEF LoadsBy, N
<1>7. \A k \in 1..N, n \in 1..count : ~(n <= old) => Share(o, inst, Ids, 1, k, n) = 0
  <2>. SUFFICES ASSUME NEW k \in 1..N, NEW n \in 1..count, ~(n <= old)
                PROVE  Share(o, inst, Ids, 1, k, n) = 0
    OBVIOUS
  <2>0. k \in Ids /\ n \notin 1..old
    BY <1>1
  <2>1. n \notin InstanceNets(inst[k]) /\ k \in Ids /\ inst[k] \in Instances
    BY <1>2, <2>0
  <2>2. PinLoad(o, inst[k], n) = 0
    BY <2>1, PinFacts
  <2>. QED BY <2>1, <2>2 DEF Share
<1>. DEFINE S == {k \in 0..N : \A n \in 1..count : f[k][n] = IF n <= old THEN e[k][n] ELSE 0}
<1>8. 0 \in S
  <2>1. \A n \in 1..count : f[0][n] = 0
    BY <1>2, <1>6, EmptyFacts
  <2>2. \A n \in 1..old : e[0][n] = 0
    BY <1>5, EmptyFacts
  <2>3. \A n \in 1..count : n <= old => n \in 1..old
    BY <1>2
  <2>. QED BY <1>1, <2>1, <2>2, <2>3
<1>9. ASSUME NEW k \in 1..N, k - 1 \in S PROVE k \in S
  <2>1. ASSUME NEW n \in 1..count PROVE f[k][n] = IF n <= old THEN e[k][n] ELSE 0
    <3>1. f[k][n] = f[k - 1][n] + Share(o, inst, Ids, 1, k, n)
      BY <1>6
    <3>2. CASE n <= old
      <4>1. n \in 1..old
        BY <1>2, <3>2
      <4>2. e[k][n] = e[k - 1][n] + Share(o, inst, Ids, 1, k, n) /\ f[k - 1][n] = e[k - 1][n]
        BY <1>5, <1>9, <3>2, <4>1
      <4>. QED BY <3>1, <3>2, <4>2
    <3>3. CASE ~(n <= old)
      BY <1>7, <1>9, <3>1, <3>3
    <3>. QED BY <3>2, <3>3
  <2>. QED BY <1>1, <2>1
<1>10. 0..N \subseteq S
  <2>. HIDE DEF S
  <2>. QED BY <1>1, <1>8, <1>9, PositionInduction
<1>11. N \in S
  <2>. HIDE DEF S
  <2>. QED BY <1>1, <1>10
<1>. DEFINE grown == InstanceLoads(o, inst, old) \o EmptyRows(count - old, 0)
<1>12. e[N] \in [1..old -> Int] /\ f[N] \in [1..count -> Int]
  BY <1>1, <1>5, <1>6
<1>13. /\ grown \in [1..count -> Int]
       /\ \A n \in 1..count : grown[n] = IF n <= old THEN e[N][n] ELSE 0
  <2>. DEFINE l == e[N]
  <2>1. l \in [1..old -> Int] /\ grown = l \o EmptyRows(count - old, 0)
    BY <1>3, <1>12 DEF N
  <2>. HIDE DEF l, grown
  <2>2. /\ grown \in [1..count -> Int]
        /\ \A n \in 1..count : grown[n] = IF n <= old THEN l[n] ELSE 0
    <3>. DEFINE T == Int
                zero == 0
    <3>1. zero \in T /\ l \in [1..old -> T]
      BY <2>1
    <3>. HIDE DEF T, zero
    <3>2. IsGrown(l \o EmptyRows(count - old, zero), old, count, l, T, zero)
      BY <3>1, GrownFacts
    <3>3. grown = l \o EmptyRows(count - old, zero)
      BY <2>1 DEF zero
    <3>. QED BY <3>2, <3>3 DEF T, zero, IsGrown
  <2>. QED BY <2>2 DEF l
<1>. HIDE DEF grown
<1>14. \A n \in 1..count : f[N][n] = grown[n]
  BY <1>11, <1>13
<1>15. f[N] = grown
  BY <1>12, <1>13, <1>14, SameValues
<1>. QED BY <1>4, <1>15 DEF grown, N

\* Taking the old instances of a region off and putting its new ones on leaves
\* the loads of the new instances; a net on which no instance's share changed
\* keeps its load.
LEMMA RegionLoadsExact ==
  ASSUME NEW o \in Owners, NEW g, GraphType(g), g.load = InstanceLoads(o, g.inst, g.nets),
         NEW delta, DeltaFits(g, delta), NEW count \in {g.nets, g.nets + 1}
  PROVE  LET new == [i \in Ids |-> IF i \in DOMAIN delta THEN delta[i] ELSE g.inst[i]]
             load == RegionLoads(o, g, delta, count) IN
         /\ load = InstanceLoads(o, new, count) /\ load \in [1..count -> Int]
         /\ \A n \in 1..g.nets :
               (\A i \in DOMAIN delta : PinLoad(o, g.inst[i], n) = PinLoad(o, delta[i], n))
                  => load[n] = g.load[n]
<1>. DEFINE N == Cardinality(Ids)
            D == DOMAIN delta
            new == [i \in Ids |-> IF i \in D THEN delta[i] ELSE g.inst[i]]
            grown == g.load \o EmptyRows(count - g.nets, 0)
            without == AdjustRegionLoads(o, grown, g.inst, D, -1)
            load == RegionLoads(o, g, delta, count)
<1>1. N \in Nat /\ Ids = 1..N
  BY DesignAssumption, FS_CardinalityType
<1>2. /\ g.nets \in Nat /\ count \in Nat /\ InstType(g.inst, g.nets) /\ g.load \in [1..g.nets -> Int]
      /\ \A i \in Ids : g.inst[i] \in Instances
  BY DEF GraphType, InstType
<1>3. D \in SUBSET Ids /\ \A i \in D : delta[i] \in Instances
  BY DEF DeltaFits
<1>4. /\ grown \in [1..count -> Int]
      /\ \A n \in 1..count : grown[n] = IF n <= g.nets THEN g.load[n] ELSE 0
  <2>. DEFINE T == Int
              zero == 0
              old == g.nets
              loads == g.load
              empty == EmptyRows(count - old, zero)
  <2>1. zero \in T /\ loads \in [1..old -> T] /\ old \in Nat /\ count \in {old, old + 1}
    BY <1>2
  <2>. HIDE DEF T, zero, old, loads, grown
  <2>2. IsGrown(loads \o EmptyRows(count - old, zero), old, count, loads, T, zero)
    BY <2>1, GrownFacts
  <2>3. grown = loads \o EmptyRows(count - old, zero)
    BY DEF grown, loads, old, zero
  <2>. QED BY <2>2, <2>3 DEF T, zero, old, loads, IsGrown
<1>5. grown = InstanceLoads(o, g.inst, count)
  <2>. DEFINE old == g.nets
              inst == g.inst
  <2>1. old \in Nat /\ count \in {old, old + 1} /\ InstType(inst, old)
    BY <1>2
  <2>. HIDE DEF old, inst
  <2>2. InstanceLoads(o, inst, count) = InstanceLoads(o, inst, old) \o EmptyRows(count - old, 0)
    BY <2>1, LoadsGrow
  <2>. QED BY <2>2 DEF old, inst
<1>. HIDE DEF grown, D
<1>6. -1 \in Int /\ 1 \in Int /\ \A i \in D : g.inst[i] \in Instances
  BY <1>2, <1>3
<1>7. PICK a : without = a[N] /\ LoadsBy(o, grown, g.inst, D, -1, count, a)
  BY <1>2, <1>3, <1>4, <1>6, LoadSteps
<1>8. without \in [1..count -> Int]
  BY <1>2, <1>3, <1>4, <1>6, LoadsResult
<1>9. load = AdjustRegionLoads(o, without, delta, D, 1)
  BY DEF RegionLoads, grown, D
<1>. HIDE DEF without, load
<1>10. PICK b : load = b[N] /\ LoadsBy(o, without, delta, D, 1, count, b)
  BY <1>2, <1>3, <1>6, <1>8, <1>9, LoadSteps
<1>11. \A i \in Ids : new[i] \in Instances /\ new[i] = IF i \in D THEN delta[i] ELSE g.inst[i]
  BY <1>2, <1>3
<1>. HIDE DEF new
<1>12. PICK c : InstanceLoads(o, new, count) = c[N] /\ LoadsBy(o, EmptyRows(count, 0), new, Ids, 1, count, c)
  BY <1>2, <1>11, InstanceLoadSteps
<1>13. PICK e : InstanceLoads(o, g.inst, count) = e[N] /\ LoadsBy(o, EmptyRows(count, 0), g.inst, Ids, 1, count, e)
  BY <1>2, InstanceLoadSteps
<1>. HIDE DEF N
<1>14. /\ a \in [0..N -> [1..count -> Int]] /\ a[0] = grown
       /\ b \in [0..N -> [1..count -> Int]] /\ b[0] = without
       /\ c \in [0..N -> [1..count -> Int]] /\ c[0] = EmptyRows(count, 0)
       /\ e \in [0..N -> [1..count -> Int]] /\ e[0] = EmptyRows(count, 0)
  BY <1>7, <1>10, <1>12, <1>13 DEF LoadsBy, N
<1>15. ASSUME NEW k \in 1..N, NEW n \in 1..count
       PROVE  /\ a[k][n] = a[k - 1][n] + Share(o, g.inst, D, -1, k, n)
              /\ b[k][n] = b[k - 1][n] + Share(o, delta, D, 1, k, n)
              /\ c[k][n] = c[k - 1][n] + Share(o, new, Ids, 1, k, n)
              /\ e[k][n] = e[k - 1][n] + Share(o, g.inst, Ids, 1, k, n)
  BY <1>7, <1>10, <1>12, <1>13 DEF LoadsBy, N
<1>16. ASSUME NEW k \in 1..N, NEW n \in 1..count
       PROVE  /\ Share(o, new, Ids, 1, k, n) - Share(o, g.inst, Ids, 1, k, n) =
                    Share(o, g.inst, D, -1, k, n) + Share(o, delta, D, 1, k, n)
              /\ Share(o, new, Ids, 1, k, n) \in Int /\ Share(o, g.inst, Ids, 1, k, n) \in Int
              /\ Share(o, g.inst, D, -1, k, n) \in Int /\ Share(o, delta, D, 1, k, n) \in Int
              /\ (\A i \in D : PinLoad(o, g.inst[i], n) = PinLoad(o, delta[i], n)) =>
                    Share(o, new, Ids, 1, k, n) = Share(o, g.inst, Ids, 1, k, n)
  <2>1. k \in Ids /\ new[k] \in Instances /\ g.inst[k] \in Instances /\ (k \in D => delta[k] \in Instances)
    BY <1>1, <1>2, <1>3, <1>11
  <2>2. PinLoad(o, new[k], n) \in Int /\ PinLoad(o, g.inst[k], n) \in Int
        /\ (k \in D => PinLoad(o, delta[k], n) \in Int)
    BY <2>1, PinFacts
  <2>3. CASE k \in D
    <3>1. new[k] = delta[k]
      BY <1>11, <2>1, <2>3
    <3>2. /\ Share(o, new, Ids, 1, k, n) = PinLoad(o, delta[k], n)
          /\ Share(o, g.inst, Ids, 1, k, n) = PinLoad(o, g.inst[k], n)
          /\ Share(o, g.inst, D, -1, k, n) = -PinLoad(o, g.inst[k], n)
          /\ Share(o, delta, D, 1, k, n) = PinLoad(o, delta[k], n)
      BY <2>1, <2>2, <2>3, <3>1 DEF Share
    <3>. QED BY <2>2, <2>3, <3>2
  <2>4. CASE k \notin D
    <3>1. new[k] = g.inst[k]
      BY <1>11, <2>1, <2>4
    <3>2. /\ Share(o, new, Ids, 1, k, n) = PinLoad(o, g.inst[k], n)
          /\ Share(o, g.inst, Ids, 1, k, n) = PinLoad(o, g.inst[k], n)
          /\ Share(o, g.inst, D, -1, k, n) = 0 /\ Share(o, delta, D, 1, k, n) = 0
      BY <2>1, <2>2, <2>4, <3>1 DEF Share
    <3>. QED BY <2>2, <2>4, <3>2
  <2>. QED BY <2>3, <2>4
<1>. DEFINE S == {k \in 0..N : \A n \in 1..count :
                    /\ c[k][n] - e[k][n] = (a[k][n] - a[0][n]) + (b[k][n] - b[0][n])
                    /\ (\A i \in D : PinLoad(o, g.inst[i], n) = PinLoad(o, delta[i], n)) => c[k][n] = e[k][n]}
<1>17. \A k \in 0..N, n \in 1..count :
           a[k][n] \in Int /\ b[k][n] \in Int /\ c[k][n] \in Int /\ e[k][n] \in Int
  BY <1>14
<1>18. 0 \in S
  <2>1. ASSUME NEW n \in 1..count
        PROVE  /\ c[0][n] - e[0][n] = (a[0][n] - a[0][n]) + (b[0][n] - b[0][n])
               /\ c[0][n] = e[0][n]
    <3>1. 0 \in 0..N /\ c[0] = e[0]
      BY <1>1, <1>14
    <3>. QED BY <1>17, <3>1
  <2>. QED BY <1>1, <2>1
<1>19. ASSUME NEW k \in 1..N, k - 1 \in S PROVE k \in S
  <2>1. ASSUME NEW n \in 1..count
        PROVE  /\ c[k][n] - e[k][n] = (a[k][n] - a[0][n]) + (b[k][n] - b[0][n])
               /\ (\A i \in D : PinLoad(o, g.inst[i], n) = PinLoad(o, delta[i], n)) => c[k][n] = e[k][n]
    <3>1. /\ c[k - 1][n] - e[k - 1][n] = (a[k - 1][n] - a[0][n]) + (b[k - 1][n] - b[0][n])
          /\ (\A i \in D : PinLoad(o, g.inst[i], n) = PinLoad(o, delta[i], n)) => c[k - 1][n] = e[k - 1][n]
      BY <1>19
    <3>2. /\ a[k][n] = a[k - 1][n] + Share(o, g.inst, D, -1, k, n)
          /\ b[k][n] = b[k - 1][n] + Share(o, delta, D, 1, k, n)
          /\ c[k][n] = c[k - 1][n] + Share(o, new, Ids, 1, k, n)
          /\ e[k][n] = e[k - 1][n] + Share(o, g.inst, Ids, 1, k, n)
      BY <1>15
    <3>3. /\ k - 1 \in 0..N /\ k \in 0..N /\ 0 \in 0..N
          /\ a[k - 1][n] \in Int /\ b[k - 1][n] \in Int /\ c[k - 1][n] \in Int /\ e[k - 1][n] \in Int
          /\ a[0][n] \in Int /\ b[0][n] \in Int
      BY <1>1, <1>17
    <3>. QED BY <1>16, <3>1, <3>2, <3>3
  <2>. QED BY <1>1, <2>1
<1>20. 0..N \subseteq S
  <2>. HIDE DEF S
  <2>. QED BY <1>1, <1>18, <1>19, PositionInduction
<1>21. N \in S /\ N \in 0..N /\ 0 \in 0..N
  <2>. HIDE DEF S
  <2>. QED BY <1>1, <1>20
<1>22. ASSUME NEW n \in 1..count
       PROVE  /\ b[N][n] = c[N][n]
              /\ (\A i \in D : PinLoad(o, g.inst[i], n) = PinLoad(o, delta[i], n)) => b[N][n] = grown[n]
  <2>1. /\ c[N][n] - e[N][n] = (a[N][n] - a[0][n]) + (b[N][n] - b[0][n])
        /\ (\A i \in D : PinLoad(o, g.inst[i], n) = PinLoad(o, delta[i], n)) => c[N][n] = e[N][n]
    BY <1>21
  <2>2. a[N][n] = b[0][n] /\ a[0][n] = e[N][n] /\ e[N][n] = grown[n]
    BY <1>5, <1>7, <1>13, <1>14 DEF N
  <2>3. a[N][n] \in Int /\ b[N][n] \in Int /\ c[N][n] \in Int /\ e[N][n] \in Int
    BY <1>17, <1>21
  <2>. QED BY <2>1, <2>2, <2>3
<1>23. b[N] \in [1..count -> Int] /\ c[N] \in [1..count -> Int]
  BY <1>14, <1>21
<1>24. b[N] = c[N]
  <2>1. \A n \in 1..count : b[N][n] = c[N][n]
    BY <1>22
  <2>. DEFINE x == b[N]
              y == c[N]
              W == 1..count
  <2>2. x \in [W -> Int] /\ y \in [W -> Int] /\ \A n \in W : x[n] = y[n]
    BY <1>23, <2>1
  <2>. HIDE DEF x, y, W
  <2>3. x = y
    BY <2>2, SameValues
  <2>. QED BY <2>3 DEF x, y
<1>25. load = InstanceLoads(o, new, count) /\ load \in [1..count -> Int]
  BY <1>10, <1>12, <1>23, <1>24 DEF N
<1>26. ASSUME NEW n \in 1..g.nets, \A i \in D : PinLoad(o, g.inst[i], n) = PinLoad(o, delta[i], n)
       PROVE  load[n] = g.load[n]
  <2>1. n \in 1..count /\ n <= g.nets
    BY <1>2
  <2>2. b[N][n] = grown[n]
    BY <1>22, <1>26, <2>1
  <2>. QED BY <1>4, <1>10, <2>1, <2>2 DEF N
<1>. QED BY <1>25, <1>26 DEF load, new, D

-----------------------------------------------------------------------------
(***************************************************************************)
(* Replacing a region.                                                     *)
(***************************************************************************)

\* The nets of the replaced and the new instances, the nets there are
\* afterwards, and the instances.
Touched(g, delta) ==
    UNION {InstanceNets(g.inst[i]) \cup InstanceNets(delta[i]) : i \in DOMAIN delta}
NetsAfter(g, delta) == Max({g.nets} \cup Touched(g, delta))
Replaced(g, delta) == [i \in Ids |-> IF i \in DOMAIN delta THEN delta[i] ELSE g.inst[i]]

\* A delta that fits adds one net or none.
LEMMA RegionNets ==
  ASSUME NEW g, GraphType(g), NEW delta, DeltaFits(g, delta)
  PROVE  /\ g.nets \in Nat /\ NetsAfter(g, delta) \in {g.nets, g.nets + 1}
         /\ Touched(g, delta) \subseteq 1..NetsAfter(g, delta)
         /\ NetsAfter(g, delta) # g.nets => g.nets + 1 \in Touched(g, delta)
         /\ InstType(Replaced(g, delta), NetsAfter(g, delta))
<1>. DEFINE S == {g.nets} \cup Touched(g, delta)
            N == NetsAfter(g, delta)
<1>1. g.nets \in Nat /\ InstType(g.inst, g.nets)
  BY DEF GraphType
<1>2. \A i \in DOMAIN delta : i \in Ids /\ InstanceNets(g.inst[i]) \subseteq 1..g.nets
                              /\ InstanceNets(delta[i]) \subseteq 1..(g.nets + 1)
  BY <1>1 DEF DeltaFits, InstType
<1>3. Touched(g, delta) \in SUBSET (1..(g.nets + 1))
  <2>1. ASSUME NEW n \in Touched(g, delta) PROVE n \in 1..(g.nets + 1)
    <3>1. PICK i \in DOMAIN delta : n \in InstanceNets(g.inst[i]) \/ n \in InstanceNets(delta[i])
      BY DEF Touched
    <3>2. \A m : m \in 1..g.nets => m \in 1..(g.nets + 1)
      BY <1>1
    <3>. QED BY <1>2, <3>1, <3>2
  <2>. QED BY <2>1
<1>4. N = CHOOSE x \in S : \A y \in S : x >= y
  BY DEF NetsAfter, Max
<1>5. \A y \in S : y \in Nat /\ y <= g.nets + 1 /\ g.nets \in S
  BY <1>1, <1>3
<1>. HIDE DEF S, N
<1>6. \E x \in S : \A y \in S : x >= y
  <2>1. CASE g.nets + 1 \in S
    BY <1>1, <1>5, <2>1
  <2>2. CASE g.nets + 1 \notin S
    <3>1. \A y \in S : y # g.nets + 1
      BY <2>2
    <3>2. \A y \in S : g.nets >= y
      BY <1>1, <1>5, <3>1
    <3>. QED BY <1>5, <3>2 DEF S
  <2>. QED BY <2>1, <2>2
<1>7. N \in S /\ \A y \in S : N >= y
  BY <1>4, <1>6
<1>8. N \in {g.nets, g.nets + 1}
  BY <1>1, <1>5, <1>7 DEF S
<1>9. \A n \in Touched(g, delta) : n \in 1..N
  <2>1. \A n \in Touched(g, delta) : n \in S /\ n \in 1..(g.nets + 1)
    BY <1>3 DEF S
  <2>. QED BY <1>1, <1>7, <1>8, <2>1
<1>10. N # g.nets => g.nets + 1 \in Touched(g, delta)
  BY <1>7, <1>8 DEF S
<1>11. ASSUME NEW i \in Ids
       PROVE  Replaced(g, delta)[i] \in Instances /\ InstanceNets(Replaced(g, delta)[i]) \subseteq 1..N
  <2>1. CASE i \in DOMAIN delta
    <3>1. Replaced(g, delta)[i] = delta[i] /\ delta[i] \in Instances
      BY <2>1 DEF Replaced, DeltaFits
    <3>2. InstanceNets(delta[i]) \subseteq Touched(g, delta)
      BY <2>1 DEF Touched
    <3>. QED BY <1>9, <3>1, <3>2
  <2>2. CASE i \notin DOMAIN delta
    <3>1. Replaced(g, delta)[i] = g.inst[i] /\ g.inst[i] \in Instances /\ InstanceNets(g.inst[i]) \subseteq 1..g.nets
      BY <1>1, <2>2 DEF Replaced, InstType
    <3>2. \A m : m \in 1..g.nets => m \in 1..N
      BY <1>1, <1>8
    <3>. QED BY <3>1, <3>2
  <2>. QED BY <2>1, <2>2
<1>12. InstType(Replaced(g, delta), N)
  BY <1>11 DEF InstType, Replaced
<1>. QED BY <1>1, <1>8, <1>9, <1>10, <1>12 DEF N

\* The graph and the journal after the replacement, field by field.
RegionGraph(o, g, delta, changed) ==
    [inst |-> Replaced(g, delta), nets |-> NetsAfter(g, delta),
     load |-> RegionLoads(o, g, delta, NetsAfter(g, delta)),
     order |-> IF changed THEN g.order \o [k \in 1..NetsAfter(g, delta) - g.nets |-> g.nets + k]
               ELSE g.order,
     plan |-> g.plan, stale |-> g.stale, generation |-> g.generation]
\* Its journal.
RegionJournal(g, delta, changed) ==
    [old_inst |-> [i \in DOMAIN delta |-> g.inst[i]], old_net_len |-> g.nets,
     old_nets |-> [n \in Touched(g, delta) \cap Nets(g) |-> g.load[n]],
     structure_changed |-> changed, old_order_len |-> Len(g.order),
     was_stale |-> g.stale, old_generation |-> g.generation]
\* Whether the edit changes nets or edges.
StructureChanges(g, delta) ==
    NetsAfter(g, delta) # g.nets \/ Edges([inst |-> Replaced(g, delta)]) # Edges(g)

\* The answer of ReplaceInstanceRegion, by its parts.
RegionIs(o, g, delta, changed, ordered, r) ==
    /\ r.graph = [ordered EXCEPT !.stale = g.stale \/ changed]
    /\ r.journal = RegionJournal(g, delta, changed)
    /\ r.dirty = InstanceRegionDirtyNets(g, delta)
    /\ r.cycle = AddedEdgesCreateCycle(ordered, Edges(ordered) \ Edges(g))

\* What ReplaceInstanceRegion returns, by its parts.
LEMMA RegionFields ==
  ASSUME NEW o, NEW g, GraphType(g), NEW delta
  PROVE  RegionIs(o, g, delta, StructureChanges(g, delta),
                  RegionGraph(o, g, delta, StructureChanges(g, delta)),
                  ReplaceInstanceRegion(o, g, delta))
<1>. DEFINE N == NetsAfter(g, delta)
            L == RegionLoads(o, g, delta, N)
            new == Replaced(g, delta)
            replaced == [g EXCEPT !.nets = N,
                              !.inst = [i \in Ids |-> IF i \in DOMAIN delta THEN delta[i] ELSE @[i]],
                              !.load = L]
            plain == [inst |-> new, nets |-> N, load |-> L, order |-> g.order, plan |-> g.plan,
                      stale |-> g.stale, generation |-> g.generation]
            changed == N # g.nets \/ Edges(replaced) # Edges(g)
            order == IF changed THEN g.order \o [k \in 1..N - g.nets |-> g.nets + k] ELSE g.order
            ordered == [replaced EXCEPT !.order = IF changed THEN @ \o [k \in 1..N - g.nets |-> g.nets + k] ELSE @]
            filled == [inst |-> new, nets |-> N, load |-> L, order |-> order, plan |-> g.plan,
                       stale |-> g.stale, generation |-> g.generation]
            r == ReplaceInstanceRegion(o, g, delta)
<1>1. replaced = plain
  <2>1. new = [i \in Ids |-> IF i \in DOMAIN delta THEN delta[i] ELSE g.inst[i]]
    BY DEF Replaced
  <2>. HIDE DEF N, L, new
  <2>2. g = [inst |-> g.inst, nets |-> g.nets, load |-> g.load, order |-> g.order,
             plan |-> g.plan, stale |-> g.stale, generation |-> g.generation]
    BY DEF GraphType, GraphShape
  <2>3. replaced = [g EXCEPT !.nets = N, !.inst = new, !.load = L]
    BY <2>1
  <2>. HIDE DEF replaced
  <2>4. replaced = [f \in DOMAIN g |-> IF f = "nets" THEN N ELSE IF f = "inst" THEN new
                                       ELSE IF f = "load" THEN L ELSE g[f]]
    BY <2>2, <2>3
  <2>5. DOMAIN g = {"inst", "nets", "load", "order", "plan", "stale", "generation"}
    BY <2>2
  <2>. QED BY <2>4, <2>5
<1>2. r = [graph |-> [ordered EXCEPT !.stale = @ \/ changed],
           journal |-> [old_inst |-> [i \in DOMAIN delta |-> g.inst[i]], old_net_len |-> g.nets,
                        old_nets |-> [n \in Touched(g, delta) \cap Nets(g) |-> g.load[n]],
                        structure_changed |-> changed, old_order_len |-> Len(g.order),
                        was_stale |-> g.stale, old_generation |-> g.generation],
           dirty |-> InstanceRegionDirtyNets(g, delta),
           cycle |-> AddedEdgesCreateCycle(ordered, Edges(ordered) \ Edges(g))]
  BY DEF ReplaceInstanceRegion, Touched, NetsAfter
<1>3. Edges(replaced) = Edges([inst |-> new])
  <2>. HIDE DEF replaced
  <2>1. replaced.inst = [inst |-> new].inst
    BY <1>1
  <2>. QED BY <2>1, SameInstances
<1>4. changed = StructureChanges(g, delta)
  BY <1>3 DEF StructureChanges
<1>. HIDE DEF replaced, changed
<1>5. ordered = filled
  <2>1. plain.order = g.order
    OBVIOUS
  <2>2. order = IF changed THEN g.order \o [k \in 1..N - g.nets |-> g.nets + k] ELSE g.order
    OBVIOUS
  <2>. HIDE DEF N, L, new, order
  <2>3. ordered = [plain EXCEPT !.order = order]
    BY <1>1, <2>1, <2>2
  <2>. QED BY <2>3
<1>6. filled = RegionGraph(o, g, delta, changed)
  BY DEF RegionGraph
<1>. HIDE DEF filled, ordered
<1>7. ordered.stale = g.stale
  BY <1>5 DEF filled
<1>8. /\ r.graph = [ordered EXCEPT !.stale = @ \/ changed]
      /\ r.dirty = InstanceRegionDirtyNets(g, delta)
      /\ r.cycle = AddedEdgesCreateCycle(ordered, Edges(ordered) \ Edges(g))
  BY <1>2
<1>9. r.journal = RegionJournal(g, delta, changed)
  BY <1>2 DEF RegionJournal
<1>10. r.graph = [ordered EXCEPT !.stale = g.stale \/ changed]
  BY <1>7, <1>8
<1>. HIDE DEF r
<1>11. RegionIs(o, g, delta, changed, ordered, r)
  BY <1>8, <1>9, <1>10 DEF RegionIs
<1>. QED BY <1>4, <1>5, <1>6, <1>11 DEF r

\* A sequence of as many nets as there are, with every net.
ListsNets(s, count) ==
    s \in Seq(1..count) /\ Len(s) = count /\ \A n \in 1..count : \E k \in 1..count : s[k] = n

\* The place of a net in an order that lists every net.
LEMMA PositionFacts ==
  ASSUME NEW g, NEW count \in Nat, ListsNets(g.order, count), NEW n \in 1..count
  PROVE  Position(g, n) \in 1..count /\ g.order[Position(g, n)] = n
<1>1. DOMAIN g.order = 1..count
  BY LenProperties DEF ListsNets
<1>2. Position(g, n) = CHOOSE k \in 1..count : g.order[k] = n
  BY <1>1 DEF Position
<1>3. \E k \in 1..count : g.order[k] = n
  BY DEF ListsNets
<1>. QED BY <1>2, <1>3

\* The new nets come last.
WithNewNets(g, count) == g.order \o [k \in 1..count - g.nets |-> g.nets + k]

\* The old order with the new nets at its end lists every net.
LEMMA AppendedOrder ==
  ASSUME NEW g, GraphType(g), Ordered(g), NEW count \in {g.nets, g.nets + 1}
  PROVE  /\ ListsNets(WithNewNets(g, count), count)
         /\ \A k \in 1..count :
               WithNewNets(g, count)[k] = IF k <= g.nets THEN g.order[k] ELSE k
<1>. DEFINE N == g.nets
            a == g.order
            e == [k \in 1..count - N |-> N + k]
            s == a \o e
<1>1. N \in Nat /\ a \in Seq(1..N) /\ Len(a) = N /\ \A n \in 1..N : \E k \in 1..N : a[k] = n
  BY DEF GraphType, Ordered
<1>2. count \in {N, N + 1}
  OBVIOUS
<1>. HIDE DEF N, a
<1>3. count \in Nat /\ a \in Seq(1..count) /\ \A k \in 1..N : a[k] \in 1..count
  <2>1. count \in Nat /\ \A k \in 1..N : k \in 1..count
    BY <1>1, <1>2
  <2>2. a \in [1..N -> 1..N]
    BY <1>1, LenProperties
  <2>3. a = [k \in 1..N |-> a[k]] /\ \A k \in 1..N : a[k] \in 1..count
    BY <2>1, <2>2
  <2>4. a \in [1..N -> 1..count]
    BY <2>3
  <2>. QED BY <1>1, <2>1, <2>3, <2>4
<1>4. e \in Seq(1..count) /\ Len(e) = count - N /\ \A k \in 1..count - N : e[k] = N + k
  BY <1>1, <1>2
<1>. HIDE DEF e
<1>5. s \in Seq(1..count) /\ Len(s) = count
  BY <1>1, <1>2, <1>3, <1>4
<1>6. ASSUME NEW k \in 1..count PROVE s[k] = IF k <= N THEN a[k] ELSE k
  <2>1. CASE k <= N
    BY <1>1, <1>3, <1>4, <2>1
  <2>2. CASE ~(k <= N)
    <3>1. s[k] = e[k - N] /\ k - N \in 1..count - N
      BY <1>1, <1>2, <1>3, <1>4, <2>2
    <3>. QED BY <1>1, <1>4, <2>2, <3>1
  <2>. QED BY <2>1, <2>2
<1>. HIDE DEF s
<1>7. ASSUME NEW n \in 1..count PROVE \E k \in 1..count : s[k] = n
  <2>1. CASE n <= N
    <3>1. PICK k \in 1..N : a[k] = n
      BY <1>1, <1>3, <2>1
    <3>2. k \in 1..count /\ k <= N
      BY <1>1, <1>2
    <3>3. s[k] = n
      BY <1>6, <3>1, <3>2
    <3>. QED BY <3>2, <3>3
  <2>2. CASE ~(n <= N)
    BY <1>6, <2>2
  <2>. QED BY <2>1, <2>2
<1>8. WithNewNets(g, count) = s
  BY DEF s, N, a, e, WithNewNets
<1>9. ListsNets(s, count)
  BY <1>5, <1>7 DEF ListsNets
<1>. QED BY <1>6, <1>8, <1>9 DEF N, a

\* Ranks under which each edge rises or cannot close a loop.
Rank(edges, count, limit, r) ==
    /\ r \in [1..count -> 1..limit]
    /\ \A x, y : <<x, y>> \in edges => r[x] < r[y] \/ y \notin Upstream(edges, {x})

\* In an order that is not stale the rank is the place.
LEMMA PlaceRank ==
  ASSUME NEW o, NEW g, GraphType(g), Acyclic(g.inst, g.nets), OrderKept(g),
         NEW delta, DeltaFits(g, delta), g.stale = FALSE,
         ReplaceInstanceRegion(o, g, delta).cycle = FALSE
  PROVE  \E r : Rank(Edges([inst |-> Replaced(g, delta)]), NetsAfter(g, delta), NetsAfter(g, delta), r)
<1>. DEFINE N == NetsAfter(g, delta)
            changed == StructureChanges(g, delta)
            h == RegionGraph(o, g, delta, changed)
            E == Edges([inst |-> Replaced(g, delta)])
            place == [n \in 1..N |-> Position(h, n)]
<1>1. /\ g.nets \in Nat /\ N \in {g.nets, g.nets + 1} /\ InstType(Replaced(g, delta), N)
  BY RegionNets
<1>2. Ordered(g)
  BY DEF OrderKept
<1>3. h.inst = Replaced(g, delta) /\ h.stale = FALSE
      /\ h.order = IF changed THEN g.order \o [k \in 1..N - g.nets |-> g.nets + k] ELSE g.order
  BY DEF RegionGraph
<1>4. Edges(h) = E
  <2>1. h.inst = [inst |-> Replaced(g, delta)].inst
    BY <1>3
  <2>. HIDE DEF h
  <2>. QED BY <2>1, SameInstances
<1>5. ~changed => N = g.nets
  BY DEF StructureChanges
<1>. HIDE DEF N, changed, h, E
<1>6. ListsNets(h.order, N) /\ \A k \in 1..g.nets : h.order[k] = g.order[k]
  <2>1. CASE changed
    <3>1. /\ ListsNets(WithNewNets(g, N), N)
          /\ \A k \in 1..N : WithNewNets(g, N)[k] = IF k <= g.nets THEN g.order[k] ELSE k
      BY <1>1, <1>2, AppendedOrder
    <3>2. h.order = WithNewNets(g, N)
      BY <1>3, <2>1 DEF WithNewNets
    <3>3. \A k \in 1..g.nets : k \in 1..N /\ k <= g.nets
      BY <1>1
    <3>. QED BY <3>1, <3>2, <3>3
  <2>2. CASE ~changed
    BY <1>2, <1>3, <1>5, <2>2 DEF Ordered, ListsNets
  <2>. QED BY <2>1, <2>2
<1>7. ASSUME NEW n \in 1..N PROVE Position(h, n) \in 1..N /\ h.order[Position(h, n)] = n
  <2>1. N \in Nat
    BY <1>1
  <2>. QED BY <1>6, <2>1, PositionFacts
<1>8. \A j \in 1..N, k \in 1..g.nets : h.order[j] = h.order[k] => j = k
  <2>. SUFFICES ASSUME NEW j \in 1..N, NEW k \in 1..g.nets, h.order[j] = h.order[k] PROVE j = k
    OBVIOUS
  <2>1. g.order[k] \in 1..g.nets /\ h.order[k] = g.order[k]
    BY <1>2, <1>6, OrderFacts
  <2>2. CASE j <= g.nets
    <3>1. j \in 1..g.nets
      BY <1>1, <2>2
    <3>. QED BY <1>2, <1>6, <2>1, <3>1 DEF Ordered
  <2>3. CASE ~(j <= g.nets)
    <3>1. changed /\ N = g.nets + 1 /\ j = g.nets + 1
      BY <1>1, <1>5, <2>3
    <3>2. h.order[j] = j
      <4>1. \A i \in 1..N : WithNewNets(g, N)[i] = IF i <= g.nets THEN g.order[i] ELSE i
        BY <1>1, <1>2, AppendedOrder
      <4>2. h.order = WithNewNets(g, N)
        BY <1>3, <3>1 DEF WithNewNets
      <4>. QED BY <2>3, <4>1, <4>2
    <3>. QED BY <1>1, <2>1, <3>1, <3>2
  <2>. QED BY <2>2, <2>3
<1>9. ASSUME NEW x, NEW y, <<x, y>> \in E
      PROVE  place[x] < place[y] \/ y \notin Upstream(E, {x})
  <2>1. x \in 1..N /\ y \in 1..N
    <3>1. E \in SUBSET ((1..N) \X (1..N))
      <4>. DEFINE q == [inst |-> Replaced(g, delta)]
      <4>1. InstType(q.inst, N)
        BY <1>1
      <4>. HIDE DEF q
      <4>2. Edges(q) \in SUBSET ((1..N) \X (1..N))
        BY <4>1, EdgeFacts
      <4>. QED BY <4>2 DEF q, E
    <3>. QED BY <1>9, <3>1
  <2>2. place[x] = Position(h, x) /\ place[y] = Position(h, y)
    BY <2>1
  <2>3. CASE <<x, y>> \in Edges(g)
    <3>1. x \in 1..g.nets /\ y \in 1..g.nets
      <4>1. Edges(g) \in SUBSET ((1..g.nets) \X (1..g.nets))
        BY EdgeFacts DEF GraphType
      <4>. QED BY <2>3, <4>1
    <3>2. PICK j \in 1..g.nets, k \in 1..g.nets : g.order[j] = x /\ g.order[k] = y
      <4>1. \A n \in 1..g.nets : \E m \in 1..g.nets : g.order[m] = n
        BY <1>2 DEF Ordered
      <4>. QED BY <3>1, <4>1
    <3>3. j < k
      BY <1>2, <2>3, <3>2 DEF Ordered
    <3>4. Position(h, x) = j /\ Position(h, y) = k
      <4>1. h.order[j] = x /\ h.order[k] = y
        BY <1>6, <3>2
      <4>2. /\ Position(h, x) \in 1..N /\ h.order[Position(h, x)] = x
            /\ Position(h, y) \in 1..N /\ h.order[Position(h, y)] = y
        BY <1>7, <2>1
      <4>. QED BY <1>8, <4>1, <4>2
    <3>. QED BY <2>2, <3>3, <3>4
  <2>4. CASE <<x, y>> \notin Edges(g)
    <3>1. ~AddedEdgesCreateCycle(h, E \ Edges(g))
      <4>1. RegionIs(o, g, delta, changed, h, ReplaceInstanceRegion(o, g, delta))
        BY RegionFields DEF h, changed
      <4>. QED BY <1>4, <4>1 DEF RegionIs
    <3>. DEFINE d == <<x, y>>
    <3>2. d \in E \ Edges(g) /\ d[1] = x /\ d[2] = y
      BY <1>9, <2>4
    <3>. HIDE DEF d
    <3>3. ~(Position(h, x) >= Position(h, y) /\ y \in Upstream(E, {x}))
      BY <1>4, <3>1, <3>2 DEF AddedEdgesCreateCycle
    <3>4. Position(h, x) \in Int /\ Position(h, y) \in Int
      BY <1>7, <2>1
    <3>. QED BY <2>2, <3>3, <3>4
  <2>. QED BY <2>3, <2>4
<1>10. place \in [1..N -> 1..N]
  BY <1>7
<1>. HIDE DEF place
<1>11. Rank(E, N, N, place)
  BY <1>9, <1>10 DEF Rank
<1>. QED BY <1>11 DEF N, E

\* In a stale one each added edge is followed up, and the old ones rise along
\* the places the graph had.
LEMMA OldRank ==
  ASSUME NEW o, NEW g, GraphType(g), Acyclic(g.inst, g.nets),
         NEW delta, DeltaFits(g, delta), g.stale = TRUE,
         ReplaceInstanceRegion(o, g, delta).cycle = FALSE
  PROVE  \E r : Rank(Edges([inst |-> Replaced(g, delta)]), NetsAfter(g, delta), g.nets + 1, r)
<1>. DEFINE N == NetsAfter(g, delta)
            changed == StructureChanges(g, delta)
            h == RegionGraph(o, g, delta, changed)
            E == Edges([inst |-> Replaced(g, delta)])
<1>1. g.nets \in Nat /\ N \in {g.nets, g.nets + 1}
  BY RegionNets
<1>2. PICK old \in [1..g.nets -> 1..g.nets] :
          \A e \in Edges([inst |-> g.inst]) : old[e[1]] < old[e[2]]
  BY DEF Acyclic
<1>3. Edges([inst |-> g.inst]) = Edges(g)
  <2>. DEFINE q == [inst |-> g.inst]
  <2>1. q.inst = g.inst
    OBVIOUS
  <2>. HIDE DEF q
  <2>. QED BY <2>1, SameInstances DEF q
<1>4. h.inst = Replaced(g, delta) /\ h.stale = TRUE
  BY DEF RegionGraph
<1>5. Edges(h) = E
  <2>1. h.inst = [inst |-> Replaced(g, delta)].inst
    BY <1>4
  <2>. HIDE DEF h
  <2>. QED BY <2>1, SameInstances
<1>. DEFINE r == [n \in 1..N |-> IF n <= g.nets THEN old[n] ELSE g.nets + 1]
<1>. HIDE DEF N, changed, h, E
<1>6. r \in [1..N -> 1..(g.nets + 1)]
  <2>1. ASSUME NEW n \in 1..N PROVE (IF n <= g.nets THEN old[n] ELSE g.nets + 1) \in 1..(g.nets + 1)
    <3>1. CASE n <= g.nets
      <4>1. n \in 1..g.nets /\ old[n] \in 1..g.nets
        BY <1>1, <3>1
      <4>. QED BY <1>1, <3>1, <4>1
    <3>2. CASE ~(n <= g.nets)
      BY <1>1, <3>2
    <3>. QED BY <3>1, <3>2
  <2>. QED BY <2>1
<1>7. ASSUME NEW x, NEW y, <<x, y>> \in E
      PROVE  r[x] < r[y] \/ y \notin Upstream(E, {x})
  <2>. DEFINE d == <<x, y>>
  <2>1. d \in E /\ d[1] = x /\ d[2] = y
    BY <1>7
  <2>2. CASE d \in Edges(g)
    <3>1. x \in 1..g.nets /\ y \in 1..g.nets
      <4>1. Edges(g) \in SUBSET ((1..g.nets) \X (1..g.nets))
        BY EdgeFacts DEF GraphType
      <4>. QED BY <2>2, <4>1
    <3>2. old[x] < old[y]
      <4>. HIDE DEF d
      <4>. QED BY <1>2, <1>3, <2>1, <2>2
    <3>3. x \in 1..N /\ y \in 1..N /\ x <= g.nets /\ y <= g.nets
      BY <1>1, <3>1
    <3>. QED BY <3>2, <3>3
  <2>3. CASE d \notin Edges(g)
    <3>1. ~AddedEdgesCreateCycle(h, E \ Edges(g))
      <4>1. RegionIs(o, g, delta, changed, h, ReplaceInstanceRegion(o, g, delta))
        BY RegionFields DEF h, changed
      <4>. QED BY <1>5, <4>1 DEF RegionIs
    <3>. HIDE DEF d
    <3>. QED BY <1>4, <1>5, <2>1, <2>3, <3>1 DEF AddedEdgesCreateCycle
  <2>. QED BY <2>2, <2>3
<1>. HIDE DEF r
<1>8. Rank(E, N, g.nets + 1, r)
  BY <1>6, <1>7 DEF Rank
<1>. QED BY <1>8 DEF N, E

\* A region that passes the cycle check leaves no loop.
LEMMA RegionAcyclic ==
  ASSUME NEW o, NEW g, GraphType(g), Acyclic(g.inst, g.nets), OrderKept(g),
         NEW delta, DeltaFits(g, delta), ReplaceInstanceRegion(o, g, delta).cycle = FALSE
  PROVE  Acyclic(Replaced(g, delta), NetsAfter(g, delta))
<1>. DEFINE N == NetsAfter(g, delta)
            q == [inst |-> Replaced(g, delta)]
            E == Edges(q)
<1>1. /\ g.nets \in Nat /\ N \in {g.nets, g.nets + 1} /\ InstType(q.inst, N)
  BY RegionNets
<1>2. PICK K \in {N, g.nets + 1} : \E r : Rank(Edges(q), N, K, r)
  <2>1. g.stale = TRUE \/ g.stale = FALSE
    BY DEF GraphType
  <2>. QED BY <2>1, PlaceRank, OldRank
<1>. HIDE DEF N, q
<1>3. N \in Nat /\ K \in Nat
  BY <1>1, <1>2
<1>4. IsFiniteSet(E) /\ E \in SUBSET ((1..N) \X (1..N))
  BY <1>1, <1>3, EdgesFinite
<1>. HIDE DEF E
<1>5. PICK r : Rank(E, N, K, r)
  BY <1>2 DEF E
<1>6. \A a, b : <<a, b>> \in E => b \notin Upstream(E, {a})
  <2>. SUFFICES ASSUME NEW a, NEW b, <<a, b>> \in E PROVE b \notin Upstream(E, {a})
    OBVIOUS
  <2>1. /\ r \in [1..N -> 1..K]
        /\ \A x, y : <<x, y>> \in E => r[x] < r[y] \/ y \notin Upstream(E, {x})
    BY <1>5 DEF Rank
  <2>. QED BY <1>3, <1>4, <2>1, SuspectsSuffice
<1>7. \E place \in [1..N -> 1..N] : \A e \in E : place[e[1]] < place[e[2]]
  BY <1>3, <1>4, <1>6, PlacesExist
<1>. QED BY <1>7 DEF Acyclic, N, E, q

\* The graph after the replacement.
RegionGraphOK(o, g, delta, h) ==
    /\ GraphType(h) /\ OrderKept(h)
    /\ h.inst = Replaced(g, delta) /\ h.nets = NetsAfter(g, delta)
    /\ h.load = InstanceLoads(o, h.inst, h.nets)
    /\ \A n \in 1..g.nets :
          (\A i \in DOMAIN delta : PinLoad(o, g.inst[i], n) = PinLoad(o, delta[i], n))
             => h.load[n] = g.load[n]
    /\ h.generation = g.generation /\ h.plan = g.plan
    /\ StructureChanges(g, delta) => h.stale = TRUE /\ h.order = WithNewNets(g, h.nets)
    /\ ~StructureChanges(g, delta) =>
          h.stale = g.stale /\ h.order = g.order /\ h.nets = g.nets

\* The graph after a region edit is typed, and its order is still one or is stale.
LEMMA RegionGraphFacts ==
  ASSUME NEW o \in Owners, NEW g, GraphType(g), g.load = InstanceLoads(o, g.inst, g.nets),
         OrderKept(g), NEW delta, DeltaFits(g, delta)
  PROVE  RegionGraphOK(o, g, delta, ReplaceInstanceRegion(o, g, delta).graph)
<1>. DEFINE N == NetsAfter(g, delta)
            new == Replaced(g, delta)
            L == RegionLoads(o, g, delta, N)
            changed == StructureChanges(g, delta)
            order == IF changed THEN g.order \o [k \in 1..N - g.nets |-> g.nets + k] ELSE g.order
            stale == g.stale \/ changed
            h == ReplaceInstanceRegion(o, g, delta).graph
<1>1. h = [RegionGraph(o, g, delta, changed) EXCEPT !.stale = stale]
  <2>1. RegionIs(o, g, delta, changed, RegionGraph(o, g, delta, changed),
                 ReplaceInstanceRegion(o, g, delta))
    BY RegionFields
  <2>. QED BY <2>1 DEF RegionIs
<1>2. /\ g.nets \in Nat /\ N \in {g.nets, g.nets + 1} /\ InstType(new, N)
      /\ g.stale \in BOOLEAN /\ g.generation \in Nat
  BY RegionNets DEF GraphType
<1>3. /\ L = InstanceLoads(o, new, N) /\ L \in [1..N -> Int]
      /\ \A n \in 1..g.nets :
            (\A i \in DOMAIN delta : PinLoad(o, g.inst[i], n) = PinLoad(o, delta[i], n)) => L[n] = g.load[n]
  <2>. HIDE DEF N
  <2>. QED BY <1>2, RegionLoadsExact DEF Replaced
<1>4. changed \in BOOLEAN /\ stale \in BOOLEAN
  BY DEF StructureChanges
<1>5. ~changed => N = g.nets /\ Edges([inst |-> new]) = Edges(g)
  BY DEF StructureChanges
<1>. HIDE DEF h
<1>6. h = [inst |-> new, nets |-> N, load |-> L, order |-> order, plan |-> g.plan,
           stale |-> stale, generation |-> g.generation]
  <2>1. RegionGraph(o, g, delta, changed) =
          [inst |-> new, nets |-> N, load |-> L, order |-> order, plan |-> g.plan,
           stale |-> g.stale, generation |-> g.generation]
    BY DEF RegionGraph
  <2>. HIDE DEF N, new, L, order, stale
  <2>. QED BY <1>1, <2>1
<1>7. /\ h.inst = new /\ h.nets = N /\ h.load = L /\ h.order = order /\ h.plan = g.plan
      /\ h.stale = stale /\ h.generation = g.generation
  <2>. HIDE DEF N, new, L, order, stale
  <2>. QED BY <1>6
<1>8. h.stale = IF changed THEN TRUE ELSE g.stale
  BY <1>2, <1>7
<1>9. h.order = IF changed THEN g.order \o [k \in 1..N - g.nets |-> g.nets + k] ELSE g.order
  BY <1>7
<1>. HIDE DEF N, new, L, order, stale, changed
<1>10. GraphType(h)
  <2>1. N \in Nat
    BY <1>2
  <2>2. h.stale \in BOOLEAN
    BY <1>2, <1>8
  <2>3. GraphShape(h)
    BY <1>6, <1>7 DEF GraphShape
  <2>. QED BY <1>2, <1>3, <1>7, <2>1, <2>2, <2>3 DEF GraphType
<1>11. Edges(h) = Edges([inst |-> new])
  <2>1. h.inst = [inst |-> new].inst
    BY <1>7
  <2>. QED BY <2>1, SameInstances
<1>12. OrderKept(h)
  <2>. SUFFICES ASSUME h.stale = FALSE PROVE Ordered(h) /\ h.plan = Edges(h)
    BY DEF OrderKept
  <2>1. ~changed /\ g.stale = FALSE
    BY <1>8
  <2>2. /\ h.nets = g.nets /\ h.order = g.order /\ h.plan = g.plan /\ Edges(h) = Edges(g)
    BY <1>5, <1>7, <1>9, <1>11, <2>1
  <2>. QED BY <2>1, <2>2 DEF OrderKept, Ordered
<1>13. /\ h.load = InstanceLoads(o, h.inst, h.nets)
       /\ \A n \in 1..g.nets :
             (\A i \in DOMAIN delta : PinLoad(o, g.inst[i], n) = PinLoad(o, delta[i], n)) => h.load[n] = g.load[n]
  BY <1>3, <1>7
<1>14. /\ (changed => h.stale = TRUE /\ h.order = WithNewNets(g, h.nets))
       /\ (~changed => h.stale = g.stale /\ h.order = g.order /\ h.nets = g.nets)
  BY <1>5, <1>7, <1>8, <1>9 DEF WithNewNets
<1>15. RegionGraphOK(o, g, delta, h)
  BY <1>7, <1>10, <1>12, <1>13, <1>14 DEF RegionGraphOK, N, new, changed
<1>. QED BY <1>15 DEF h

-----------------------------------------------------------------------------
(***************************************************************************)
(* The seeds of an edit.                                                   *)
(***************************************************************************)

\* The seeds of one instance of a delta.
ChangedPins(old, new) ==
    UNION {{old.ins[k], new.ins[k]} : k \in {j \in DOMAIN old.ins : old.ins[j] # new.ins[j]}}
DirtyOf(old, new) ==
    IF old = new THEN {}
    ELSE IF old # Absent /\ new # Absent /\ old.cell = new.cell
    THEN ChangedPins(old, new) \cup {old.out, new.out}
    ELSE InstanceNets(old) \cup InstanceNets(new)

\* The seeds are the dirty nets of each instance of the delta.
LEMMA DirtyIs ==
  ASSUME NEW g, NEW delta
  PROVE  InstanceRegionDirtyNets(g, delta) = UNION {DirtyOf(g.inst[i], delta[i]) : i \in DOMAIN delta}
BY DEF InstanceRegionDirtyNets, DirtyOf, ChangedPins

\* A net that one instance does not seed sees nothing of its change, and one
\* that only the new instance has is a seed.
LEMMA DirtyFacts ==
  ASSUME NEW old \in Instances, NEW new \in Instances
  PROVE  /\ DirtyOf(old, new) \subseteq InstanceNets(old) \cup InstanceNets(new)
         /\ InstanceNets(new) \subseteq InstanceNets(old) \cup DirtyOf(old, new)
         /\ \A n : n \notin DirtyOf(old, new) =>
               /\ \A o \in Owners : PinLoad(o, old, n) = PinLoad(o, new, n)
               /\ old # new => /\ old # Absent => old.out # n
                               /\ new # Absent => new.out # n
<1>1. CASE old = new
  BY <1>1 DEF DirtyOf
<1>2. CASE old # new /\ old # Absent /\ new # Absent /\ old.cell = new.cell
  <2>1. /\ DOMAIN old.ins = 1..Len(old.ins) /\ DOMAIN new.ins = 1..Len(new.ins)
        /\ Len(old.ins) = Len(new.ins)
        /\ InstanceNets(old) = ToSet(old.ins) \cup {old.out}
        /\ InstanceNets(new) = ToSet(new.ins) \cup {new.out}
    BY <1>2, InstanceFacts, DesignAssumption
  <2>2. DOMAIN old.ins = DOMAIN new.ins
    BY <2>1
  <2>. DEFINE K == DOMAIN old.ins
              pins == ChangedPins(old, new)
  <2>9. pins = UNION {{old.ins[k], new.ins[k]} : k \in {j \in K : old.ins[j] # new.ins[j]}}
    BY DEF ChangedPins
  <2>3. DirtyOf(old, new) = pins \cup {old.out, new.out}
    BY <1>2 DEF DirtyOf
  <2>4. ToSet(old.ins) = {old.ins[k] : k \in K} /\ ToSet(new.ins) = {new.ins[k] : k \in K}
    BY <2>2 DEF ToSet
  <2>. HIDE DEF K, pins
  <2>5. pins \subseteq ToSet(old.ins) \cup ToSet(new.ins)
    BY <2>4, <2>9
  <2>6. ToSet(new.ins) \subseteq ToSet(old.ins) \cup pins
    BY <2>4, <2>9
  <2>7. ASSUME NEW n, n \notin pins PROVE \A k \in K : old.ins[k] = n <=> new.ins[k] = n
    BY <2>7, <2>9
  <2>8. ASSUME NEW n, n \notin pins, NEW o \in Owners PROVE PinLoad(o, old, n) = PinLoad(o, new, n)
    <3>1. {k \in K : old.ins[k] = n} = {k \in K : new.ins[k] = n}
      BY <2>7, <2>8
    <3>. QED BY <1>2, <2>2, <3>1 DEF PinLoad, K
  <2>. QED BY <2>1, <2>3, <2>5, <2>6, <2>8
<1>3. CASE old # new /\ ~(old # Absent /\ new # Absent /\ old.cell = new.cell)
  <2>1. DirtyOf(old, new) = InstanceNets(old) \cup InstanceNets(new)
    BY <1>3 DEF DirtyOf
  <2>2. ASSUME NEW n, n \notin DirtyOf(old, new), NEW o \in Owners
        PROVE  PinLoad(o, old, n) = PinLoad(o, new, n)
    <3>1. PinLoad(o, old, n) = 0 /\ PinLoad(o, new, n) = 0
      BY <2>1, <2>2, PinFacts
    <3>. QED BY <3>1
  <2>3. /\ old # Absent => old.out \in InstanceNets(old)
        /\ new # Absent => new.out \in InstanceNets(new)
    BY DEF InstanceNets
  <2>. QED BY <2>1, <2>2, <2>3
<1>. QED BY <1>1, <1>2, <1>3

\* What the seeds of a region leave out, of any graph with the region's
\* instances and loads.
LEMMA SeedFacts ==
  ASSUME NEW o \in Owners, NEW g, GraphType(g), g.load = InstanceLoads(o, g.inst, g.nets),
         NEW delta, DeltaFits(g, delta), OrderKept(g),
         NEW h, SameGraph(ReplaceInstanceRegion(o, g, delta).graph, h)
  PROVE  /\ InstanceRegionDirtyNets(g, delta) \in SUBSET (1..h.nets)
         /\ \A n \in 1..h.nets : n \notin InstanceRegionDirtyNets(g, delta) =>
               n \in 1..g.nets /\ SameAt(g, h, n)
<1>. DEFINE D == DOMAIN delta
            dirty == InstanceRegionDirtyNets(g, delta)
            N == NetsAfter(g, delta)
            G == ReplaceInstanceRegion(o, g, delta).graph
<1>1. /\ G.inst = Replaced(g, delta) /\ G.nets = N
      /\ \A n \in 1..g.nets :
            (\A i \in D : PinLoad(o, g.inst[i], n) = PinLoad(o, delta[i], n)) => G.load[n] = g.load[n]
  <2>1. RegionGraphOK(o, g, delta, G)
    BY RegionGraphFacts
  <2>. HIDE DEF G, N
  <2>. QED BY <2>1 DEF RegionGraphOK, N
<1>2. /\ h.inst = Replaced(g, delta) /\ h.nets = N
      /\ \A n \in 1..g.nets :
            (\A i \in D : PinLoad(o, g.inst[i], n) = PinLoad(o, delta[i], n)) => h.load[n] = g.load[n]
  BY <1>1 DEF SameGraph
<1>. HIDE DEF G
<1>3. /\ g.nets \in Nat /\ N \in {g.nets, g.nets + 1} /\ Touched(g, delta) \subseteq 1..N
      /\ (N # g.nets => g.nets + 1 \in Touched(g, delta))
  BY RegionNets
<1>4. /\ \A i \in D : g.inst[i] \in Instances /\ delta[i] \in Instances /\ i \in Ids
      /\ \A i \in Ids : InstanceNets(g.inst[i]) \subseteq 1..g.nets
  BY DEF GraphType, InstType, DeltaFits
<1>5. dirty = UNION {DirtyOf(g.inst[i], delta[i]) : i \in D}
  BY DirtyIs
<1>. HIDE DEF dirty
<1>6. dirty \subseteq 1..N
  <2>1. ASSUME NEW i \in D PROVE DirtyOf(g.inst[i], delta[i]) \subseteq Touched(g, delta)
    BY <1>4, DirtyFacts DEF Touched
  <2>. QED BY <1>3, <1>5, <2>1
<1>. HIDE DEF N
<1>7. ASSUME N # g.nets PROVE g.nets + 1 \in dirty
  <2>1. PICK i \in D : g.nets + 1 \in InstanceNets(g.inst[i]) \cup InstanceNets(delta[i])
    BY <1>3, <1>7 DEF Touched
  <2>2. g.nets + 1 \notin InstanceNets(g.inst[i])
    <3>1. g.nets + 1 \notin 1..g.nets
      BY <1>3
    <3>. QED BY <1>4, <3>1
  <2>3. g.nets + 1 \in DirtyOf(g.inst[i], delta[i])
    BY <1>4, <2>1, <2>2, DirtyFacts
  <2>. QED BY <1>5, <2>3
<1>8. ASSUME NEW n \in 1..N, n \notin dirty PROVE n \in 1..g.nets /\ SameAt(g, h, n)
  <2>1. n \in 1..g.nets
    <3>1. N = g.nets \/ n # g.nets + 1
      BY <1>7, <1>8
    <3>. QED BY <1>3, <3>1
  <2>2. ASSUME NEW i \in D
        PROVE  /\ PinLoad(o, g.inst[i], n) = PinLoad(o, delta[i], n)
               /\ g.inst[i] # delta[i] => /\ g.inst[i] # Absent => g.inst[i].out # n
                                          /\ delta[i] # Absent => delta[i].out # n
    <3>1. n \notin DirtyOf(g.inst[i], delta[i])
      BY <1>5, <1>8
    <3>. QED BY <1>4, <3>1, DirtyFacts
  <2>3. h.load[n] = g.load[n]
    BY <1>2, <2>1, <2>2
  <2>4. \A i \in Ids : h.inst[i] = IF i \in D THEN delta[i] ELSE g.inst[i]
    BY <1>2 DEF Replaced
  <2>5. ASSUME NEW i \in Ids, \/ g.inst[i] # Absent /\ g.inst[i].out = n
                              \/ h.inst[i] # Absent /\ h.inst[i].out = n
        PROVE  g.inst[i] = h.inst[i]
    BY <2>2, <2>4, <2>5
  <2>6. DriversOf(g, n) = DriversOf(h, n) /\ LaunchersOf(g, n) = LaunchersOf(h, n)
        /\ \A i \in DriversOf(g, n) \cup LaunchersOf(g, n) : g.inst[i] = h.inst[i]
    <3>1. \A i \in Present(g) : g.inst[i].out = n => i \in Present(h) /\ g.inst[i] = h.inst[i]
      BY <2>5 DEF Present
    <3>2. \A i \in Present(h) : h.inst[i].out = n => i \in Present(g) /\ g.inst[i] = h.inst[i]
      BY <2>5 DEF Present
    <3>3. \A i : i \in DriversOf(g, n) <=> i \in DriversOf(h, n)
      BY <3>1, <3>2 DEF DriversOf, Gates
    <3>4. \A i : i \in LaunchersOf(g, n) <=> i \in LaunchersOf(h, n)
      BY <3>1, <3>2 DEF LaunchersOf, Flops, Gates
    <3>5. \A i \in DriversOf(g, n) \cup LaunchersOf(g, n) : g.inst[i] = h.inst[i]
      BY <3>1 DEF DriversOf, LaunchersOf, Flops, Gates
    <3>. QED BY <3>3, <3>4, <3>5
  <2>. QED BY <2>1, <2>3, <2>6 DEF SameAt
<1>. QED BY <1>2, <1>6, <1>8 DEF dirty

-----------------------------------------------------------------------------
(***************************************************************************)
(* An edit of one owner, and its undoing.                                  *)
(***************************************************************************)

\* A typed acyclic graph with a current or stale order whose loads are those of
\* its instances; rows that are a fixed point of the propagation at the free
\* nets, and the rules and the snapshot of such rows.
GraphExact(o, g) ==
    /\ GraphType(g) /\ Acyclic(g.inst, g.nets) /\ OrderKept(g)
    /\ g.load = InstanceLoads(o, g.inst, g.nets)
RowsExact(o, g, arr, rules) == Fix(o, g, arr) /\ rules = DesignRuleBuild(o, g, arr)
SnapshotOf(g, arr) == [n \in 1..g.nets |-> <<g.load[n], arr[n].transition>>]

\* Only instances, nets and loads matter to the rows.
LEMMA RowsSame ==
  ASSUME NEW o \in Owners, NEW g, NEW h, SameGraph(g, h), NEW arr, NEW rules, RowsExact(o, g, arr, rules)
  PROVE  RowsExact(o, h, arr, rules) /\ SnapshotOf(h, arr) = SnapshotOf(g, arr)
<1>1. h.inst = g.inst /\ h.nets = g.nets /\ h.load = g.load
  BY DEF SameGraph
<1>2. /\ RowsType(g, arr)
      /\ \A n \in 1..g.nets : Free(o, g, n) => arr[n] = PropagateSlots(o, g, arr, n)
      /\ rules = DesignRuleBuild(o, g, arr)
  BY DEF RowsExact, Fix
<1>3. ASSUME NEW n \in 1..h.nets, Free(o, h, n) PROVE arr[n] = PropagateSlots(o, h, arr, n)
  <2>1. SameAt(g, h, n)
    BY <1>1, SameInstances DEF SameAt
  <2>2. SameInputs(g, arr, arr, n)
    BY DEF SameInputs
  <2>3. SameWires(o, g, h, n)
    BY <1>1 DEF SameWires, WireDelay
  <2>4. Free(o, g, n)
    BY <1>1, <1>3, <2>1 DEF Free, SameAt
  <2>. QED BY <1>1, <1>2, <2>1, <2>2, <2>3, <2>4, SlotsDepend
<1>4. Fix(o, h, arr)
  BY <1>1, <1>2, <1>3 DEF Fix, RowsType
<1>5. DesignRuleBuild(o, h, arr) = DesignRuleBuild(o, g, arr)
  BY <1>1 DEF DesignRuleBuild, RecomputeRule, Nets
<1>. QED BY <1>1, <1>2, <1>4, <1>5 DEF RowsExact, SnapshotOf

\* Bringing the order up to date leaves a graph exact.
LEMMA EnsureExact ==
  ASSUME NEW o, NEW g, GraphExact(o, g)
  PROVE  LET h == EnsureTopologicalOrder(g) IN
         GraphExact(o, h) /\ SameGraph(g, h) /\ h.stale = FALSE /\ Ordered(h)
<1>. DEFINE h == EnsureTopologicalOrder(g)
<1>1. /\ GraphType(h) /\ SameGraph(g, h) /\ h.stale = FALSE
      /\ Ordered(h) /\ h.plan = Edges(h)
  BY EnsureFacts DEF GraphExact
<1>. HIDE DEF h
<1>2. GraphExact(o, h)
  BY <1>1 DEF GraphExact, SameGraph, OrderKept
<1>. QED BY <1>1, <1>2 DEF h

\* A region that passes the cycle check leaves an exact graph.
LEMMA ReplaceExact ==
  ASSUME NEW o \in Owners, NEW g, GraphExact(o, g), NEW delta, DeltaFits(g, delta),
         ReplaceInstanceRegion(o, g, delta).cycle = FALSE
  PROVE  GraphExact(o, ReplaceInstanceRegion(o, g, delta).graph)
<1>. DEFINE h == ReplaceInstanceRegion(o, g, delta).graph
<1>1. RegionGraphOK(o, g, delta, h)
  BY RegionGraphFacts DEF GraphExact
<1>2. Acyclic(Replaced(g, delta), NetsAfter(g, delta))
  BY RegionAcyclic DEF GraphExact
<1>. HIDE DEF h
<1>3. GraphExact(o, h)
  BY <1>1, <1>2 DEF RegionGraphOK, GraphExact
<1>. QED BY <1>3 DEF h

\* What the propagation from an edit's seeds leaves: exact rows, and a
\* journal from which the old ones come back.
Forwarded(o, g, arr, dirty, h, forward) ==
    /\ Fix(o, h, forward.arr) /\ dirty \subseteq DOMAIN forward.journal
    /\ \A n \in 1..g.nets :
          IF n \in DOMAIN forward.journal THEN forward.journal[n] = arr[n] ELSE forward.arr[n] = arr[n]

\* Propagating the seeds of an edit makes the rows of the new graph exact: an
\* unseeded net has the drivers, the load and the inputs it had, and if it is
\* free the loads of its inputs, which may have changed, do not matter.
LEMMA ForwardedExact ==
  ASSUME NEW o \in Owners, NEW g, GraphExact(o, g), NEW arr, Fix(o, g, arr),
         NEW delta, DeltaFits(g, delta),
         NEW h, SameGraph(ReplaceInstanceRegion(o, g, delta).graph, h), GraphExact(o, h), Ordered(h)
  PROVE  Forwarded(o, g, arr, InstanceRegionDirtyNets(g, delta), h,
                   UpdateArrivals(o, h, arr \o EmptyRows(h.nets - g.nets, NoRow),
                                  InstanceRegionDirtyNets(g, delta)))
<1>. DEFINE dirty == InstanceRegionDirtyNets(g, delta)
            start == arr \o EmptyRows(h.nets - g.nets, NoRow)
            forward == UpdateArrivals(o, h, start, dirty)
<1>1. /\ GraphType(g) /\ g.load = InstanceLoads(o, g.inst, g.nets) /\ OrderKept(g) /\ GraphType(h)
  BY DEF GraphExact
<1>2. /\ dirty \in SUBSET (1..h.nets)
      /\ \A n \in 1..h.nets : n \notin dirty => n \in 1..g.nets /\ SameAt(g, h, n)
  BY <1>1, SeedFacts
<1>3. g.nets \in Nat /\ h.nets \in {g.nets, g.nets + 1}
  <2>. DEFINE G == ReplaceInstanceRegion(o, g, delta).graph
  <2>1. RegionGraphOK(o, g, delta, G)
    BY <1>1, RegionGraphFacts
  <2>. HIDE DEF G
  <2>2. h.nets = NetsAfter(g, delta)
    BY <2>1 DEF SameGraph, RegionGraphOK, G
  <2>. QED BY <1>1, <2>2, RegionNets
<1>4. RowsType(g, arr) /\ \A n \in 1..g.nets : Free(o, g, n) => arr[n] = PropagateSlots(o, g, arr, n)
  BY DEF Fix
<1>5. RowsType(h, start) /\ \A n \in 1..g.nets : start[n] = arr[n]
  <2>. DEFINE old == g.nets
              count == h.nets
  <2>1. old \in Nat /\ count \in {old, old + 1} /\ arr \in [1..old -> Row] /\ NoRow \in Row
    BY <1>3, <1>4 DEF RowsType, NoRow, Row
  <2>. HIDE DEF old, count
  <2>2. IsGrown(arr \o EmptyRows(count - old, NoRow), old, count, arr, Row, NoRow)
    BY <2>1, GrownFacts
  <2>3. start = arr \o EmptyRows(count - old, NoRow)
    BY DEF old, count
  <2>. HIDE DEF start
  <2>4. start \in [1..count -> Row] /\ \A n \in 1..count : start[n] = IF n <= old THEN arr[n] ELSE NoRow
    BY <2>2, <2>3 DEF IsGrown
  <2>5. \A n \in 1..old : n \in 1..count /\ n <= old
    BY <2>1
  <2>. QED BY <2>4, <2>5 DEF RowsType, old, count
<1>. HIDE DEF dirty, start, forward
<1>6. ASSUME NEW n \in 1..h.nets, n \notin dirty, Free(o, h, n)
      PROVE  start[n] = PropagateSlots(o, h, start, n)
  <2>1. n \in 1..g.nets /\ SameAt(g, h, n)
    BY <1>2, <1>6
  <2>2. SameInputs(g, arr, start, n)
    <3>1. ASSUME NEW i \in DriversOf(g, n), NEW m \in ToSet(g.inst[i].ins) PROVE arr[m] = start[m]
      <4>1. i \in Present(g)
        BY DEF DriversOf, Gates
      <4>2. ToSet(g.inst[i].ins) \subseteq 1..g.nets
        BY <1>1, <4>1, PresentFacts DEF GraphType
      <4>. QED BY <1>5, <4>2
    <3>. QED BY <3>1 DEF SameInputs
  <2>3. Free(o, g, n)
    BY <1>6, <2>1 DEF Free, SameAt
  <2>4. SameWires(o, g, h, n)
    <3>1. ASSUME NEW i \in DriversOf(g, n), NEW m \in ToSet(g.inst[i].ins)
          PROVE  WireDelay(o, g, m) = WireDelay(o, h, m)
      <4>1. i \in Present(g)
        BY DEF DriversOf, Gates
      <4>2. ToSet(g.inst[i].ins) \subseteq 1..g.nets
        BY <1>1, <4>1, PresentFacts DEF GraphType
      <4>3. m \in 1..g.nets /\ m \in 1..h.nets
        BY <1>3, <4>2
      <4>4. g.load[m] \in Int /\ h.load[m] \in Int
        BY <1>1, <4>3 DEF GraphType
      <4>5. NetResistance(o, m) = 0
        BY <2>3 DEF Free
      <4>. QED BY <4>4, <4>5 DEF WireDelay
    <3>. QED BY <3>1 DEF SameWires
  <2>5. PropagateSlots(o, g, arr, n) = PropagateSlots(o, h, start, n)
    BY <2>1, <2>2, <2>4, SlotsDepend
  <2>. QED BY <1>4, <1>5, <2>1, <2>3, <2>5
<1>7. /\ RowsType(h, forward.arr) /\ forward.journal \in Journals(h)
      /\ \A n \in DOMAIN forward.journal : n \in 1..h.nets /\ forward.journal[n] = start[n]
      /\ \A n \in 1..h.nets : n \notin DOMAIN forward.journal => forward.arr[n] = start[n]
      /\ \A n \in 1..h.nets : n \in dirty => n \in DOMAIN forward.journal
      /\ (\A n \in 1..h.nets : n \notin dirty /\ Free(o, h, n)
                                  => start[n] = PropagateSlots(o, h, start, n))
               => Fix(o, h, forward.arr)
  <2>1. dirty \in SUBSET Nat
    BY <1>1, <1>2 DEF GraphType
  <2>. QED BY <1>1, <1>5, <2>1, ArrivalsExact DEF forward
<1>8. Fix(o, h, forward.arr)
  BY <1>6, <1>7
<1>9. dirty \subseteq DOMAIN forward.journal
  BY <1>2, <1>7
<1>10. ASSUME NEW n \in 1..g.nets
       PROVE  IF n \in DOMAIN forward.journal THEN forward.journal[n] = arr[n] ELSE forward.arr[n] = arr[n]
  <2>1. n \in 1..h.nets
    BY <1>3
  <2>. QED BY <1>5, <1>7, <2>1
<1>. QED BY <1>8, <1>9, <1>10 DEF Forwarded, dirty, start, forward

\* Journaled rows go back.
LEMMA RestoreFacts ==
  ASSUME NEW T, NEW count \in Nat, NEW old \in [1..count -> T], NEW size \in Nat, count <= size,
         NEW rows, DOMAIN rows = 1..size, NEW journal,
         \A n \in 1..count : IF n \in DOMAIN journal THEN journal[n] = old[n] ELSE rows[n] = old[n]
  PROVE  RestoreRows(rows, journal, count) = old
<1>. DEFINE s == [n \in DOMAIN rows |-> IF n \in DOMAIN journal THEN journal[n] ELSE rows[n]]
            R == {s[n] : n \in 1..size}
            u == SubSeq(s, 1, count)
<1>1. s \in Seq(R) /\ Len(s) = size
  <2>1. DOMAIN s = 1..size /\ s = [n \in 1..size |-> s[n]]
    OBVIOUS
  <2>. HIDE DEF s
  <2>2. s \in [1..size -> R]
    BY <2>1
  <2>. QED BY <2>1, <2>2
<1>2. \A n \in 1..count : n \in 1..size /\ s[n] = old[n]
  <2>1. \A n \in 1..count : n \in 1..size
    OBVIOUS
  <2>. QED BY <2>1
<1>. HIDE DEF s, R
<1>3. u \in Seq(R) /\ Len(u) = count /\ \A n \in 1..count : u[n] = s[n]
  BY <1>1
<1>. HIDE DEF u
<1>4. u \in [1..count -> R]
  <2>1. u \in [1..Len(u) -> R]
    BY <1>3, LenProperties
  <2>. QED BY <1>3, <2>1
<1>5. u = [n \in 1..count |-> old[n]]
  BY <1>2, <1>3, <1>4
<1>6. u = old
  BY <1>5
<1>. QED BY <1>6 DEF RestoreRows, u, s

\* The rows of a propagation go back.
LEMMA RowsRestored ==
  ASSUME NEW o, NEW g, NEW arr, NEW dirty, NEW h, NEW forward,
         Forwarded(o, g, arr, dirty, h, forward), Fix(o, g, arr),
         g.nets \in Nat, h.nets \in {g.nets, g.nets + 1}
  PROVE  RestoreRows(forward.arr, forward.journal, g.nets) = arr
<1>. DEFINE count == g.nets
            size == h.nets
            rows == forward.arr
            journal == forward.journal
<1>1. /\ count \in Nat /\ size \in Nat /\ count <= size
      /\ arr \in [1..count -> Row] /\ DOMAIN rows = 1..size
  BY DEF Forwarded, Fix, RowsType
<1>2. \A n \in 1..count : IF n \in DOMAIN journal THEN journal[n] = arr[n] ELSE rows[n] = arr[n]
  BY DEF Forwarded
<1>. HIDE DEF count, size, rows, journal
<1>3. RestoreRows(rows, journal, count) = arr
  BY <1>1, <1>2, RestoreFacts
<1>. QED BY <1>3 DEF count, rows, journal

\* The rules are those of the new rows, and go back.
LEMMA RulesExact ==
  ASSUME NEW o \in Owners, NEW g, GraphExact(o, g), NEW arr, NEW rules, RowsExact(o, g, arr, rules),
         NEW delta, DeltaFits(g, delta),
         NEW h, SameGraph(ReplaceInstanceRegion(o, g, delta).graph, h),
         NEW forward, Forwarded(o, g, arr, InstanceRegionDirtyNets(g, delta), h, forward),
         NEW changed, changed = StructureChanges(g, delta)
  PROVE  LET nets == DOMAIN forward.journal
             updated == DesignRuleUpdate(o, h, forward.arr, rules, nets, changed) IN
         /\ updated = DesignRuleBuild(o, h, forward.arr)
         /\ DesignRuleRollback(updated, DesignRuleJournal(rules, nets, changed), g.nets) = rules
<1>. DEFINE nets == DOMAIN forward.journal
            updated == DesignRuleUpdate(o, h, forward.arr, rules, nets, changed)
            journal == DesignRuleJournal(rules, nets, changed)
<1>1. rules = [n \in 1..g.nets |-> <<g.load[n], arr[n].transition>>]
  BY DEF RowsExact, DesignRuleBuild, RecomputeRule, Nets
<1>2. DesignRuleBuild(o, h, forward.arr) = [n \in 1..h.nets |-> <<h.load[n], forward.arr[n].transition>>]
  BY DEF DesignRuleBuild, RecomputeRule, Nets
<1>3. CASE changed
  <2>1. updated = DesignRuleBuild(o, h, forward.arr)
    BY <1>3 DEF DesignRuleUpdate
  <2>2. journal = [n \in DOMAIN rules |-> rules[n]]
    BY <1>3 DEF DesignRuleJournal
  <2>. HIDE DEF updated, journal
  <2>3. DesignRuleRollback(updated, journal, g.nets) = [n \in 1..g.nets |-> rules[n]]
    <3>1. DOMAIN journal = 1..g.nets /\ \A n \in 1..g.nets : journal[n] = rules[n]
      BY <1>1, <2>2
    <3>. QED BY <3>1 DEF DesignRuleRollback
  <2>4. [n \in 1..g.nets |-> rules[n]] = rules
    BY <1>1
  <2>. QED BY <2>1, <2>3, <2>4 DEF updated, journal
<1>4. CASE ~changed
  <2>1. h.nets = g.nets
    <3>1. NetsAfter(g, delta) = g.nets
      BY <1>4 DEF StructureChanges
    <3>. DEFINE G == ReplaceInstanceRegion(o, g, delta).graph
    <3>2. RegionGraphOK(o, g, delta, G)
      BY RegionGraphFacts DEF GraphExact
    <3>. HIDE DEF G
    <3>3. h.nets = NetsAfter(g, delta)
      BY <3>2 DEF SameGraph, RegionGraphOK, G
    <3>. QED BY <3>1, <3>3
  <2>2. ASSUME NEW n \in 1..g.nets, n \notin nets
        PROVE  h.load[n] = g.load[n] /\ forward.arr[n] = arr[n]
    <3>1. n \notin InstanceRegionDirtyNets(g, delta) /\ forward.arr[n] = arr[n]
      BY <2>2 DEF Forwarded
    <3>2. SameAt(g, h, n)
      BY <2>1, <3>1, SeedFacts DEF GraphExact
    <3>. QED BY <3>1, <3>2 DEF SameAt
  <2>3. updated = [n \in 1..g.nets |-> IF n \in nets THEN <<h.load[n], forward.arr[n].transition>>
                                       ELSE rules[n]]
    BY <1>1, <1>4 DEF DesignRuleUpdate, RecomputeRule
  <2>4. journal = [n \in 1..g.nets \cap nets |-> rules[n]]
    BY <1>1, <1>4 DEF DesignRuleJournal
  <2>. HIDE DEF updated, journal, nets
  <2>5. \A n \in 1..g.nets : n \notin nets => rules[n] = <<h.load[n], forward.arr[n].transition>>
    BY <1>1, <2>2
  <2>6. updated = [n \in 1..g.nets |-> <<h.load[n], forward.arr[n].transition>>]
    BY <2>3, <2>5
  <2>7. DesignRuleRollback(updated, journal, g.nets) = [n \in 1..g.nets |-> rules[n]]
    <3>1. \A n \in 1..g.nets : (IF n \in DOMAIN journal THEN journal[n] ELSE updated[n]) = rules[n]
      BY <2>3, <2>4
    <3>. QED BY <3>1 DEF DesignRuleRollback
  <2>8. [n \in 1..g.nets |-> rules[n]] = rules
    BY <1>1
  <2>. QED BY <1>2, <2>1, <2>6, <2>7, <2>8 DEF updated, journal, nets
<1>. QED BY <1>3, <1>4 DEF StructureChanges

\* An order whose new nets are cut off again.
LEMMA OrderCut ==
  ASSUME NEW g, GraphType(g), Ordered(g), NEW count \in {g.nets, g.nets + 1}
  PROVE  SubSeq(WithNewNets(g, count), 1, Len(g.order)) = g.order
<1>. DEFINE old == g.nets
            s == WithNewNets(g, count)
            u == SubSeq(s, 1, old)
            a == g.order
            W == 1..count
<1>1. old \in Nat /\ count \in {old, old + 1} /\ a \in Seq(1..old) /\ Len(a) = old
  BY DEF GraphType, Ordered
<1>2. s \in Seq(W) /\ Len(s) = count /\ \A k \in 1..count : s[k] = IF k <= old THEN a[k] ELSE k
  BY AppendedOrder DEF ListsNets
<1>. HIDE DEF old, s, a
<1>3. \A k \in 1..old : k \in 1..count /\ k <= old
  BY <1>1
<1>4. \A k \in 1..old : s[k] = a[k] /\ s[k] \in W
  BY <1>2, <1>3
<1>. HIDE DEF W
<1>5. u \in Seq(W) /\ Len(u) = old /\ \A k \in 1..old : u[k] = s[k]
  <2>1. 1 \in Int /\ old \in Int /\ \A k \in 1..old : s[k] \in W
    BY <1>1, <1>4
  <2>2. /\ SubSeq(s, 1, old) \in Seq(W)
        /\ Len(SubSeq(s, 1, old)) = IF 1 <= old THEN old - 1 + 1 ELSE 0
        /\ \A k \in 1..(old - 1 + 1) : SubSeq(s, 1, old)[k] = s[1 + k - 1]
    BY <2>1, SubSeqProperties
  <2>. QED BY <1>1, <2>2
<1>. HIDE DEF u
<1>6. u = [k \in 1..old |-> u[k]] /\ a = [k \in 1..old |-> a[k]]
  <2>1. u \in [1..Len(u) -> W] /\ a \in [1..Len(a) -> 1..old]
    BY <1>1, <1>5, LenProperties
  <2>. QED BY <1>1, <1>5, <2>1
<1>7. u = a
  BY <1>4, <1>5, <1>6
<1>. QED BY <1>1, <1>7 DEF u, s, a

\* The loads of the touched nets go back, and no other changed.
LEMMA LoadsRestored ==
  ASSUME NEW o \in Owners, NEW g, GraphExact(o, g), NEW delta, DeltaFits(g, delta),
         NEW h, SameGraph(ReplaceInstanceRegion(o, g, delta).graph, h)
  PROVE  /\ RestoreRows(h.load, [n \in Touched(g, delta) \cap Nets(g) |-> g.load[n]], g.nets) = g.load
         /\ h.inst = Replaced(g, delta) /\ g.nets \in Nat /\ h.nets = NetsAfter(g, delta)
         /\ h.nets \in {g.nets, g.nets + 1}
<1>. DEFINE count == g.nets
            size == h.nets
            old == g.load
            rows == h.load
            journal == [n \in Touched(g, delta) \cap Nets(g) |-> g.load[n]]
            G == ReplaceInstanceRegion(o, g, delta).graph
<1>1. RegionGraphOK(o, g, delta, G)
  BY RegionGraphFacts DEF GraphExact
<1>. HIDE DEF G
<1>2. /\ h.inst = Replaced(g, delta) /\ h.nets = NetsAfter(g, delta)
      /\ rows \in [1..size -> Int]
      /\ \A n \in 1..count :
            (\A i \in DOMAIN delta : PinLoad(o, g.inst[i], n) = PinLoad(o, delta[i], n)) => rows[n] = old[n]
  BY <1>1 DEF RegionGraphOK, SameGraph, GraphType, G
<1>3. /\ count \in Nat /\ size \in {count, count + 1} /\ old \in [1..count -> Int]
  BY <1>2, RegionNets DEF GraphExact, GraphType
<1>4. ASSUME NEW n \in 1..count
      PROVE  IF n \in DOMAIN journal THEN journal[n] = old[n] ELSE rows[n] = old[n]
  <2>1. CASE n \in Touched(g, delta)
    BY <2>1 DEF Nets
  <2>2. CASE n \notin Touched(g, delta)
    <3>1. ASSUME NEW i \in DOMAIN delta PROVE PinLoad(o, g.inst[i], n) = PinLoad(o, delta[i], n)
      <4>1. g.inst[i] \in Instances /\ delta[i] \in Instances
        BY DEF GraphExact, GraphType, InstType, DeltaFits
      <4>2. n \notin InstanceNets(g.inst[i]) /\ n \notin InstanceNets(delta[i])
        BY <2>2 DEF Touched
      <4>3. PinLoad(o, g.inst[i], n) = 0 /\ PinLoad(o, delta[i], n) = 0
        BY <4>1, <4>2, PinFacts
      <4>. QED BY <4>3
    <3>. QED BY <1>2, <2>2, <3>1
  <2>. QED BY <2>1, <2>2
<1>. HIDE DEF count, size, old, rows, journal
<1>5. size \in Nat /\ count <= size /\ DOMAIN rows = 1..size
  BY <1>2, <1>3
<1>6. RestoreRows(rows, journal, count) = old
  BY <1>3, <1>4, <1>5, RestoreFacts
<1>7. RestoreRows(h.load, [n \in Touched(g, delta) \cap Nets(g) |-> g.load[n]], g.nets) = g.load
  BY <1>6 DEF rows, journal, count, old
<1>. QED BY <1>2, <1>3, <1>7 DEF count, size

\* Instances put back one by one.
LEMMA InstancesRestored ==
  ASSUME NEW g, GraphType(g), NEW delta, DeltaFits(g, delta)
  PROVE  LET old == [i \in DOMAIN delta |-> g.inst[i]] IN
         [i \in Ids |-> IF i \in DOMAIN old THEN old[i] ELSE Replaced(g, delta)[i]] = g.inst
<1>1. g.inst = [i \in Ids |-> g.inst[i]] /\ DOMAIN delta \in SUBSET Ids
  BY DEF GraphType, InstType, DeltaFits
<1>2. \A i \in Ids : Replaced(g, delta)[i] = IF i \in DOMAIN delta THEN delta[i] ELSE g.inst[i]
  BY DEF Replaced
<1>. QED BY <1>1, <1>2

\* What the undoing needs to know of an order that was not recomputed.
Revertible(g, delta, h) ==
    StructureChanges(g, delta) /\ h.generation = g.generation =>
        h.order = WithNewNets(g, h.nets) /\ h.plan = g.plan

\* Undoing a region leaves the graph there was, with an order of it or a stale
\* one.
LEMMA UndoExact ==
  ASSUME NEW o \in Owners, NEW g, GraphExact(o, g), NEW delta, DeltaFits(g, delta),
         NEW h, SameGraph(ReplaceInstanceRegion(o, g, delta).graph, h), GraphType(h), OrderKept(h),
         Revertible(g, delta, h)
  PROVE  LET k == RollbackInstanceRegion(h, ReplaceInstanceRegion(o, g, delta).journal) IN
         GraphExact(o, k) /\ SameGraph(g, k)
<1>. DEFINE changed == StructureChanges(g, delta)
            journal == RegionJournal(g, delta, changed)
            k == RollbackInstanceRegion(h, journal)
            order == IF ~changed THEN h.order
                     ELSE IF h.generation = g.generation THEN SubSeq(h.order, 1, Len(g.order))
                     ELSE WithoutNewNets(h.order, g.nets)
            stale == IF ~changed THEN h.stale
                     ELSE IF h.generation = g.generation THEN g.stale ELSE TRUE
<1>1. ReplaceInstanceRegion(o, g, delta).journal = journal
  <2>1. RegionIs(o, g, delta, changed, RegionGraph(o, g, delta, changed),
                 ReplaceInstanceRegion(o, g, delta))
    BY RegionFields DEF GraphExact
  <2>. QED BY <2>1 DEF RegionIs
<1>2. /\ RestoreRows(h.load, [n \in Touched(g, delta) \cap Nets(g) |-> g.load[n]], g.nets) = g.load
      /\ h.inst = Replaced(g, delta) /\ g.nets \in Nat /\ h.nets = NetsAfter(g, delta)
      /\ h.nets \in {g.nets, g.nets + 1}
  BY LoadsRestored
<1>3. [i \in Ids |-> IF i \in DOMAIN [j \in DOMAIN delta |-> g.inst[j]]
                     THEN [j \in DOMAIN delta |-> g.inst[j]][i] ELSE h.inst[i]] = g.inst
  <2>1. GraphType(g)
    BY DEF GraphExact
  <2>. QED BY <1>2, <2>1, InstancesRestored
<1>. DEFINE restored == [h EXCEPT !.nets = g.nets, !.load = g.load, !.inst = g.inst]
<1>4. k = IF ~changed THEN restored
          ELSE IF h.generation = g.generation
          THEN [restored EXCEPT !.order = SubSeq(@, 1, Len(g.order)), !.stale = g.stale]
          ELSE [restored EXCEPT !.order = WithoutNewNets(@, g.nets), !.stale = TRUE]
  <2>1. /\ journal.old_inst = [j \in DOMAIN delta |-> g.inst[j]] /\ journal.old_net_len = g.nets
        /\ journal.old_nets = [n \in Touched(g, delta) \cap Nets(g) |-> g.load[n]]
        /\ journal.old_order_len = Len(g.order)
        /\ journal.was_stale = g.stale /\ journal.old_generation = g.generation
    BY DEF RegionJournal
  <2>2. journal.structure_changed = changed
    BY DEF RegionJournal
  <2>. HIDE DEF journal, changed
  <2>. DEFINE back == [h EXCEPT !.nets = journal.old_net_len,
                              !.load = RestoreRows(@, journal.old_nets, journal.old_net_len),
                              !.inst = [i \in Ids |-> IF i \in DOMAIN journal.old_inst
                                                      THEN journal.old_inst[i] ELSE @[i]]]
  <2>3. back = restored
    BY <1>2, <1>3, <2>1
  <2>4. k = IF ~changed THEN back
            ELSE IF h.generation = journal.old_generation
            THEN [back EXCEPT !.order = SubSeq(@, 1, journal.old_order_len),
                              !.stale = journal.was_stale]
            ELSE [back EXCEPT !.order = WithoutNewNets(@, journal.old_net_len),
                              !.stale = TRUE]
    BY <2>2 DEF RollbackInstanceRegion
  <2>. HIDE DEF back, k, restored
  <2>. QED BY <2>1, <2>3, <2>4
<1>. HIDE DEF journal
<1>5. restored = [inst |-> g.inst, nets |-> g.nets, load |-> g.load, order |-> h.order,
                  plan |-> h.plan, stale |-> h.stale, generation |-> h.generation]
  <2>1. h = [inst |-> h.inst, nets |-> h.nets, load |-> h.load, order |-> h.order,
             plan |-> h.plan, stale |-> h.stale, generation |-> h.generation]
    BY DEF GraphType, GraphShape
  <2>2. DOMAIN h = {"inst", "nets", "load", "order", "plan", "stale", "generation"}
    BY <2>1
  <2>3. restored = [f \in DOMAIN h |-> IF f = "nets" THEN g.nets ELSE IF f = "load" THEN g.load
                                       ELSE IF f = "inst" THEN g.inst ELSE h[f]]
    BY <2>2
  <2>. HIDE DEF restored
  <2>. QED BY <2>2, <2>3
<1>. HIDE DEF restored, k
<1>6. k = [inst |-> g.inst, nets |-> g.nets, load |-> g.load, order |-> order,
           plan |-> h.plan, stale |-> stale, generation |-> h.generation]
  <2>0. restored.order = h.order
    BY <1>5
  <2>1. CASE ~changed
    BY <1>4, <1>5, <2>1
  <2>2. CASE changed /\ h.generation = g.generation
    <3>. DEFINE u == SubSeq(h.order, 1, Len(g.order))
    <3>1. k = [restored EXCEPT !.order = u, !.stale = g.stale] /\ order = u /\ stale = g.stale
      BY <1>4, <2>0, <2>2
    <3>. HIDE DEF u, order, stale
    <3>. QED BY <1>5, <3>1
  <2>3. CASE changed /\ h.generation # g.generation
    <3>. DEFINE u == WithoutNewNets(h.order, g.nets)
    <3>1. k = [restored EXCEPT !.order = u, !.stale = TRUE] /\ order = u /\ stale = TRUE
      BY <1>4, <2>0, <2>3
    <3>. HIDE DEF u, order, stale
    <3>. QED BY <1>5, <3>1
  <2>. QED BY <2>1, <2>2, <2>3
<1>7. stale \in BOOLEAN
  BY DEF GraphExact, GraphType
<1>8. stale = FALSE => order = (IF changed THEN g.order ELSE h.order)
                       /\ (IF changed THEN g.stale = FALSE /\ h.plan = g.plan ELSE h.stale = FALSE)
  <2>. SUFFICES ASSUME stale = FALSE
                PROVE  order = (IF changed THEN g.order ELSE h.order)
                       /\ (IF changed THEN g.stale = FALSE /\ h.plan = g.plan ELSE h.stale = FALSE)
    OBVIOUS
  <2>1. CASE ~changed
    BY <2>1
  <2>2. CASE changed
    <3>1. h.generation = g.generation /\ g.stale = FALSE
      BY <2>2
    <3>2. h.order = WithNewNets(g, h.nets) /\ h.plan = g.plan
      BY <2>2, <3>1 DEF Revertible
    <3>3. GraphType(g) /\ Ordered(g)
      BY <3>1 DEF GraphExact, OrderKept
    <3>4. SubSeq(h.order, 1, Len(g.order)) = g.order
      BY <1>2, <3>2, <3>3, OrderCut
    <3>. QED BY <2>2, <3>1, <3>2, <3>4
  <2>. QED BY <2>1, <2>2
<1>. HIDE DEF order, stale
<1>9. /\ k.inst = g.inst /\ k.nets = g.nets /\ k.load = g.load /\ k.order = order
      /\ k.plan = h.plan /\ k.stale = stale /\ k.generation = h.generation
  BY <1>6
<1>10. GraphType(k)
  <2>1. GraphShape(k)
    BY <1>6, <1>9 DEF GraphShape
  <2>. QED BY <1>7, <1>9, <2>1 DEF GraphExact, GraphType
<1>11. Edges(k) = Edges(g) /\ (~changed => Edges(h) = Edges(g) /\ h.nets = g.nets)
  <2>1. Edges(k) = Edges(g)
    BY <1>9, SameInstances
  <2>2. Edges(h) = Edges([inst |-> Replaced(g, delta)])
    <3>1. h.inst = [inst |-> Replaced(g, delta)].inst
      BY <1>2
    <3>. QED BY <3>1, SameInstances
  <2>. QED BY <1>2, <2>1, <2>2 DEF StructureChanges
<1>12. OrderKept(k)
  <2>. SUFFICES ASSUME k.stale = FALSE PROVE Ordered(k) /\ k.plan = Edges(k)
    BY DEF OrderKept
  <2>1. CASE changed
    <3>1. k.order = g.order /\ k.plan = g.plan /\ g.stale = FALSE
      BY <1>8, <1>9, <2>1
    <3>2. Ordered(g) /\ g.plan = Edges(g)
      BY <3>1 DEF GraphExact, OrderKept
    <3>3. k.nets = g.nets /\ Edges(k) = Edges(g)
      BY <1>9, <1>11
    <3>4. Ordered(k)
      BY <3>1, <3>2, <3>3, SameOrder
    <3>. QED BY <1>11, <3>1, <3>2, <3>4
  <2>2. CASE ~changed
    <3>1. k.order = h.order /\ k.plan = h.plan /\ h.stale = FALSE
      BY <1>8, <1>9, <2>2
    <3>2. Ordered(h) /\ h.plan = Edges(h)
      BY <3>1 DEF OrderKept
    <3>3. k.nets = h.nets /\ Edges(k) = Edges(h)
      BY <1>9, <1>11, <2>2
    <3>4. Ordered(k)
      BY <3>1, <3>2, <3>3, SameOrder
    <3>. QED BY <3>1, <3>2, <3>3, <3>4
  <2>. QED BY <2>1, <2>2
<1>13. GraphExact(o, k) /\ SameGraph(g, k)
  BY <1>9, <1>10, <1>12 DEF GraphExact, SameGraph
<1>. QED BY <1>1, <1>13 DEF k

-----------------------------------------------------------------------------
(***************************************************************************)
(* Exact owners.                                                           *)
(***************************************************************************)

\* An owner whose graph, arrival rows and rules are exact, and its snapshot
\* unless a failed rollback spoiled it.
Layers(t) == {"graph", "arr", "rules", "snapshot"} \subseteq DOMAIN t
SnapshotExact(g, arr, snapshot) == snapshot # NoSnapshot => snapshot = SnapshotOf(g, arr)
Exact(o, t, clean) ==
    /\ Layers(t)
    /\ GraphExact(o, t.graph) /\ RowsExact(o, t.graph, t.arr, t.rules)
    /\ clean => SnapshotExact(t.graph, t.arr, t.snapshot)

\* An edit whose journals lead back to an exact owner.
Undoes(o, t, e, clean) ==
    LET g == RollbackInstanceRegion(t.graph, e.graph)
        arr == RestoreRows(t.arr, e.arrivals, g.nets)
    IN  /\ GraphExact(o, g) /\ RowsExact(o, g, arr, DesignRuleRollback(t.rules, e.rules, g.nets))
        /\ clean => SnapshotExact(g, arr, e.snapshot)

\* What is exact on a graph is so on one with the same instances, nets and loads.
LEMMA ExactOn ==
  ASSUME NEW o \in Owners, NEW g, NEW h, SameGraph(g, h), GraphExact(o, h),
         NEW arr, NEW rules, RowsExact(o, g, arr, rules),
         NEW clean, NEW snapshot, clean => SnapshotExact(g, arr, snapshot),
         NEW t, Layers(t), t.graph = h, t.arr = arr, t.rules = rules, t.snapshot = snapshot
  PROVE  Exact(o, t, clean)
<1>1. RowsExact(o, h, arr, rules) /\ SnapshotOf(h, arr) = SnapshotOf(g, arr)
  BY RowsSame
<1>2. clean => SnapshotExact(h, arr, snapshot)
  BY <1>1 DEF SnapshotExact
<1>. QED BY <1>1, <1>2 DEF Exact

\* Catching up with deferred required rows.
LEMMA SynchronizeExact ==
  ASSUME NEW o \in Owners, NEW t, NEW fails, NEW clean, Exact(o, t, clean)
  PROVE  LET s == SynchronizeRequireds(o, t, fails) IN
         Exact(o, s, clean) /\ SameGraph(t.graph, s.graph)
<1>. DEFINE s == SynchronizeRequireds(o, t, fails)
            h == EnsureTopologicalOrder(t.graph)
<1>1. GraphExact(o, h) /\ SameGraph(t.graph, h)
  BY EnsureExact DEF Exact
<1>. HIDE DEF h
<1>2. \/ s = t
      \/ /\ Layers(s) /\ s.graph = h /\ s.arr = t.arr /\ s.rules = t.rules /\ s.snapshot = t.snapshot
  <2>1. CASE t.required_dirty = {}
    BY <2>1 DEF SynchronizeRequireds
  <2>2. CASE t.required_dirty # {} /\ fails
    <3>1. s = [t EXCEPT !.graph = h]
      BY <2>2 DEF SynchronizeRequireds, h
    <3>. HIDE DEF s
    <3>. QED BY <3>1 DEF Exact, Layers
  <2>3. CASE t.required_dirty # {} /\ ~fails
    <3>1. s = [t EXCEPT !.graph = h, !.required_dirty = {},
                        !.req = UpdateRequireds(o, h, t.arr, @, t.required_dirty).req]
      BY <2>3 DEF SynchronizeRequireds, h
    <3>. HIDE DEF s
    <3>2. PICK req : s = [t EXCEPT !.graph = h, !.required_dirty = {}, !.req = req]
      BY <3>1
    <3>. QED BY <3>2 DEF Exact, Layers
  <2>. QED BY <2>1, <2>2, <2>3
<1>. HIDE DEF s
<1>3. Exact(o, s, clean) /\ SameGraph(t.graph, s.graph)
  <2>1. CASE s = t
    BY <2>1 DEF SameGraph
  <2>2. CASE /\ Layers(s) /\ s.graph = h /\ s.arr = t.arr /\ s.rules = t.rules
             /\ s.snapshot = t.snapshot
    <3>1. RowsExact(o, t.graph, t.arr, t.rules) /\ (clean => SnapshotExact(t.graph, t.arr, t.snapshot))
      BY DEF Exact
    <3>2. Exact(o, s, clean)
      BY <1>1, <2>2, <3>1, ExactOn
    <3>. QED BY <1>1, <2>2, <3>2
  <2>. QED BY <1>2, <2>1, <2>2
<1>. QED BY <1>3 DEF s

\* An order that was recomputed is told apart by its generation.
LEMMA RevertibleFacts ==
  ASSUME NEW o \in Owners, NEW g, GraphExact(o, g), NEW delta, DeltaFits(g, delta)
  PROVE  LET G == ReplaceInstanceRegion(o, g, delta).graph IN
         Revertible(g, delta, G) /\ Revertible(g, delta, EnsureTopologicalOrder(G))
<1>. DEFINE G == ReplaceInstanceRegion(o, g, delta).graph
            h == EnsureTopologicalOrder(G)
<1>1. RegionGraphOK(o, g, delta, G)
  BY RegionGraphFacts DEF GraphExact
<1>2. g.generation \in Nat
  BY DEF GraphExact, GraphType
<1>. HIDE DEF G
<1>3. Revertible(g, delta, G)
  BY <1>1 DEF RegionGraphOK, Revertible
<1>4. ASSUME StructureChanges(g, delta) PROVE h.generation # g.generation
  <2>1. G.stale = TRUE /\ G.generation = g.generation /\ GraphShape(G)
    BY <1>1, <1>4 DEF RegionGraphOK, GraphType
  <2>2. h.generation = G.generation + 1
    <3>. DEFINE order == TopologicalOrder(G)
                plan == Edges(G)
    <3>1. h = [G EXCEPT !.order = order, !.plan = plan, !.stale = FALSE, !.generation = @ + 1]
      BY <2>1 DEF EnsureTopologicalOrder
    <3>2. "generation" \in DOMAIN G
      BY <2>1 DEF GraphShape
    <3>. HIDE DEF order, plan, h
    <3>. QED BY <3>1, <3>2
  <2>. QED BY <1>2, <2>1, <2>2
<1>5. Revertible(g, delta, h)
  BY <1>4 DEF Revertible
<1>. QED BY <1>3, <1>5 DEF G, h

\* What an owner answers: an exact owner, and an edit that leads back.
AnswersExactly(o, r, clean) ==
    Exact(o, r.owner, clean) /\ (r.ok => Undoes(o, r.owner, r.edit, clean))

\* What follows the topology of an edit, in full or refused at any stage, leaves
\* the owner exact, and the edit of an owner that took it leads back.
LEMMA AfterTopologyExact ==
  ASSUME NEW o \in Owners, NEW t, NEW clean, Exact(o, t, clean), NEW delta, DeltaFits(t.graph, delta),
         NEW defer, NEW stage
  PROVE  AnswersExactly(o, ApplyRegionDeltaInner(o, t, delta, defer, stage), clean)
<1>. DEFINE g == t.graph
            region == ReplaceInstanceRegion(o, g, delta)
            G == region.graph
            h == EnsureTopologicalOrder(G)
            k == RollbackInstanceRegion(G, region.journal)
            r == ApplyRegionDeltaInner(o, t, delta, defer, stage)
<1>1. r = AfterTopology(o, t, delta, defer, stage, region)
  BY DEF ApplyRegionDeltaInner
<1>2. /\ Layers(t) /\ GraphExact(o, g) /\ RowsExact(o, g, t.arr, t.rules)
      /\ clean => SnapshotExact(g, t.arr, t.snapshot)
  BY DEF Exact
<1>3. /\ GraphType(G) /\ OrderKept(G) /\ SameGraph(G, G)
      /\ Revertible(g, delta, G) /\ Revertible(g, delta, h)
  <2>1. RegionGraphOK(o, g, delta, G)
    BY <1>2, RegionGraphFacts DEF GraphExact
  <2>2. Revertible(g, delta, G) /\ Revertible(g, delta, h)
    BY <1>2, RevertibleFacts
  <2>. HIDE DEF G
  <2>. QED BY <2>1, <2>2 DEF RegionGraphOK, SameGraph
<1>4. GraphExact(o, k) /\ SameGraph(g, k)
  BY <1>2, <1>3, UndoExact
<1>5. CASE region.cycle \/ stage = "graph"
  <2>1. r = Refused([t EXCEPT !.graph = k])
    BY <1>1, <1>5 DEF AfterTopology
  <2>. HIDE DEF r, k, region, g
  <2>2. r.ok = FALSE /\ r.owner = [t EXCEPT !.graph = k]
    BY <2>1 DEF Refused
  <2>3. /\ Layers(r.owner) /\ r.owner.graph = k /\ r.owner.arr = t.arr /\ r.owner.rules = t.rules
        /\ r.owner.snapshot = t.snapshot
    BY <1>2, <2>2 DEF Layers
  <2>4. Exact(o, r.owner, clean)
    BY <1>2, <1>4, <2>3, ExactOn
  <2>. QED BY <2>2, <2>4 DEF AnswersExactly, r
<1>6. CASE ~(region.cycle \/ stage = "graph")
  <2>. DEFINE start == t.arr \o EmptyRows(G.nets - g.nets, NoRow)
              forward == UpdateArrivals(o, h, start, region.dirty)
              changed == region.journal.structure_changed
              l == RollbackInstanceRegion(h, region.journal)
  <2>1. region.dirty = InstanceRegionDirtyNets(g, delta) /\ changed = StructureChanges(g, delta)
    <3>1. RegionIs(o, g, delta, StructureChanges(g, delta),
                   RegionGraph(o, g, delta, StructureChanges(g, delta)), region)
      BY <1>2, RegionFields DEF GraphExact
    <3>. HIDE DEF region
    <3>2. region.dirty = InstanceRegionDirtyNets(g, delta)
          /\ region.journal = RegionJournal(g, delta, StructureChanges(g, delta))
      BY <3>1 DEF RegionIs
    <3>. QED BY <3>2 DEF RegionJournal
  <2>2. GraphExact(o, G)
    <3>1. region.cycle = FALSE
      BY <1>6 DEF ReplaceInstanceRegion, AddedEdgesCreateCycle
    <3>. QED BY <1>2, <3>1, ReplaceExact
  <2>3. GraphExact(o, h) /\ SameGraph(G, h) /\ Ordered(h)
    BY <2>2, EnsureExact
  <2>4. GraphExact(o, l) /\ SameGraph(g, l)
    BY <1>2, <1>3, <2>3, UndoExact DEF GraphExact
  <2>5. g.nets \in Nat /\ h.nets \in {g.nets, g.nets + 1} /\ h.nets = G.nets /\ l.nets = g.nets
    BY <1>2, <2>3, <2>4, LoadsRestored DEF SameGraph
  <2>6. Fix(o, g, t.arr)
    BY <1>2 DEF RowsExact
  <2>7. Forwarded(o, g, t.arr, InstanceRegionDirtyNets(g, delta), h, forward)
    <3>1. Forwarded(o, g, t.arr, InstanceRegionDirtyNets(g, delta), h,
                    UpdateArrivals(o, h, t.arr \o EmptyRows(h.nets - g.nets, NoRow),
                                   InstanceRegionDirtyNets(g, delta)))
      BY <1>2, <2>3, <2>6, ForwardedExact
    <3>. QED BY <2>1, <2>5, <3>1
  <2>8. RestoreRows(forward.arr, forward.journal, g.nets) = t.arr
    BY <2>5, <2>6, <2>7, RowsRestored
  <2>. DEFINE rules == DesignRuleUpdate(o, h, forward.arr, t.rules, DOMAIN forward.journal, changed)
              undo == DesignRuleJournal(t.rules, DOMAIN forward.journal, changed)
  <2>9. rules = DesignRuleBuild(o, h, forward.arr) /\ DesignRuleRollback(rules, undo, g.nets) = t.rules
    BY <1>2, <2>1, <2>3, <2>7, RulesExact
  <2>10. CASE stage = "rows"
    <3>. DEFINE arr == RestoreRows(forward.arr, forward.journal, g.nets)
    <3>1. PICK req : r = Refused([[t EXCEPT !.graph = l] EXCEPT !.arr = arr, !.req = req])
      BY <1>1, <1>6, <2>10 DEF AfterTopology
    <3>2. arr = t.arr
      BY <2>8
    <3>. HIDE DEF r, arr, l, forward, region, g
    <3>3. r.ok = FALSE /\ r.owner = [[t EXCEPT !.graph = l] EXCEPT !.arr = arr, !.req = req]
      BY <3>1 DEF Refused
    <3>4. /\ Layers(r.owner) /\ r.owner.graph = l /\ r.owner.arr = t.arr /\ r.owner.rules = t.rules
          /\ r.owner.snapshot = t.snapshot
      BY <1>2, <3>2, <3>3 DEF Layers
    <3>5. Exact(o, r.owner, clean)
      BY <1>2, <2>4, <3>4, ExactOn
    <3>. QED BY <3>3, <3>5 DEF AnswersExactly, r
  <2>11. CASE stage # "rows"
    <3>1. /\ r.ok = TRUE /\ Layers(r.owner)
          /\ r.owner.graph = h /\ r.owner.arr = forward.arr /\ r.owner.rules = rules
          /\ r.owner.snapshot = NoSnapshot
          /\ r.edit.graph = region.journal /\ r.edit.arrivals = forward.journal
          /\ r.edit.rules = undo /\ r.edit.snapshot = t.snapshot
      <4>. DEFINE rows == t.req \o EmptyRows(G.nets - g.nets, NoTime)
                  required == region.dirty \cup forward.changed
                  backward == IF defer THEN [req |-> rows, journal |-> <<>>]
                              ELSE UpdateRequireds(o, h, forward.arr, rows, required)
                  closure == ClosureUpdate(o, h, forward.arr, t.closure, DOMAIN forward.journal,
                                           IF changed THEN DOMAIN delta ELSE {})
                  deferred == IF defer THEN required \ t.required_dirty ELSE {}
                  dirty == t.required_dirty \cup deferred
                  req == backward.req
                  requireds == backward.journal
                  closureJournal == ClosureJournal(t.closure, closure)
      <4>1. r = [ok |-> TRUE,
                 owner |-> [t EXCEPT
                     !.graph = h, !.arr = forward.arr, !.req = req, !.closure = closure,
                     !.rules = DesignRuleUpdate(o, h, forward.arr, @, DOMAIN forward.journal, changed),
                     !.required_dirty = @ \cup deferred, !.active = TRUE, !.prepared = FALSE,
                     !.snapshot = NoSnapshot],
                 edit |-> [graph |-> region.journal, arrivals |-> forward.journal,
                           requireds |-> requireds, closure |-> closureJournal, rules |-> undo,
                           required_dirty |-> deferred, snapshot |-> t.snapshot]]
        BY <1>1, <1>6, <2>11 DEF AfterTopology
      <4>. DEFINE owner == [t EXCEPT !.graph = h, !.arr = forward.arr, !.req = req, !.closure = closure,
                              !.rules = rules, !.required_dirty = dirty, !.active = TRUE,
                              !.prepared = FALSE, !.snapshot = NoSnapshot]
                  edit_ == [graph |-> region.journal, arrivals |-> forward.journal,
                            requireds |-> requireds, closure |-> closureJournal, rules |-> undo,
                            required_dirty |-> deferred, snapshot |-> t.snapshot]
      <4>2. r = [ok |-> TRUE, owner |-> owner, edit |-> edit_]
        BY <4>1
      <4>. HIDE DEF r, rules, undo, h, forward, region, req, closure, dirty, requireds,
                    closureJournal, deferred
      <4>3. /\ Layers(owner) /\ owner.graph = h /\ owner.arr = forward.arr /\ owner.rules = rules
            /\ owner.snapshot = NoSnapshot
        BY <1>2 DEF Layers
      <4>4. /\ edit_.graph = region.journal /\ edit_.arrivals = forward.journal
            /\ edit_.rules = undo /\ edit_.snapshot = t.snapshot
        OBVIOUS
      <4>. HIDE DEF owner, edit_
      <4>. QED BY <4>2, <4>3, <4>4
    <3>. HIDE DEF r, rules, undo, forward, h, G, region, g
    <3>2. RowsExact(o, h, forward.arr, rules)
      BY <2>7, <2>9 DEF Forwarded, RowsExact
    <3>3. Exact(o, r.owner, clean)
      BY <2>3, <3>1, <3>2 DEF Exact, SnapshotExact
    <3>4. Undoes(o, r.owner, r.edit, clean)
      <4>1. RollbackInstanceRegion(r.owner.graph, r.edit.graph) = l
        BY <3>1 DEF l
      <4>. HIDE DEF l
      <4>2. RestoreRows(r.owner.arr, r.edit.arrivals, l.nets) = t.arr
        BY <2>5, <2>8, <3>1
      <4>3. DesignRuleRollback(r.owner.rules, r.edit.rules, l.nets) = t.rules
        BY <2>5, <2>9, <3>1
      <4>4. RowsExact(o, l, t.arr, t.rules) /\ SnapshotOf(l, t.arr) = SnapshotOf(g, t.arr)
        BY <1>2, <2>4, RowsSame
      <4>5. clean => SnapshotExact(l, t.arr, t.snapshot)
        BY <1>2, <4>4 DEF SnapshotExact
      <4>. QED BY <2>4, <3>1, <4>1, <4>2, <4>3, <4>4, <4>5 DEF Undoes
    <3>. QED BY <3>3, <3>4 DEF AnswersExactly, r
  <2>. QED BY <2>10, <2>11
<1>. QED BY <1>5, <1>6

\* What a delta asks of a graph it asks of one with the same nets.
LEMMA ApplyExact ==
  ASSUME NEW o \in Owners, NEW t, NEW clean, Exact(o, t, clean), t.active = FALSE,
         NEW delta, DeltaFits(t.graph, delta), NEW defer, NEW stage
  PROVE  AnswersExactly(o, ApplyRegionDelta(o, t, delta, defer, stage), clean)
<1>. DEFINE r == ApplyRegionDelta(o, t, delta, defer, stage)
<1>1. ASSUME NEW fails
      PROVE  LET s == SynchronizeRequireds(o, t, fails) IN
             Exact(o, s, clean) /\ DeltaFits(s.graph, delta)
  <2>. DEFINE s == SynchronizeRequireds(o, t, fails)
  <2>1. Exact(o, s, clean) /\ SameGraph(t.graph, s.graph)
    BY SynchronizeExact
  <2>. HIDE DEF s
  <2>2. DeltaFits(s.graph, delta)
    BY <2>1 DEF SameGraph, DeltaFits
  <2>. QED BY <2>1, <2>2 DEF s
<1>2. CASE stage = "sync" /\ ~defer /\ t.required_dirty # {}
  <2>1. r = Refused(SynchronizeRequireds(o, t, TRUE))
    BY <1>2 DEF ApplyRegionDelta
  <2>. HIDE DEF r
  <2>2. r.ok = FALSE /\ r.owner = SynchronizeRequireds(o, t, TRUE)
    BY <2>1 DEF Refused
  <2>3. AnswersExactly(o, r, clean)
    BY <1>1, <2>2 DEF AnswersExactly
  <2>. QED BY <2>3 DEF r
<1>3. CASE ~(stage = "sync" /\ ~defer /\ t.required_dirty # {})
  <2>1. PICK s \in {t, SynchronizeRequireds(o, t, FALSE)} :
            r = ApplyRegionDeltaInner(o, s, delta, defer, stage)
    BY <1>3 DEF ApplyRegionDelta
  <2>2. Exact(o, s, clean) /\ DeltaFits(s.graph, delta)
    BY <1>1, <2>1
  <2>. HIDE DEF r
  <2>3. AnswersExactly(o, r, clean)
    BY <2>1, <2>2, AfterTopologyExact
  <2>. QED BY <2>3 DEF r
<1>. QED BY <1>2, <1>3

\* A rollback leads back to an exact owner; its snapshot only if the rollback
\* reports no failure.
LEMMA RollbackExact ==
  ASSUME NEW o \in Owners, NEW t, Layers(t), NEW e, NEW clean, Undoes(o, t, e, clean),
         NEW fails, NEW later, later => clean /\ ~fails
  PROVE  Exact(o, Rollback(t, e, fails), later)
<1>. DEFINE g == RollbackInstanceRegion(t.graph, e.graph)
            arr == RestoreRows(t.arr, e.arrivals, g.nets)
            rules == DesignRuleRollback(t.rules, e.rules, g.nets)
            h == IF e.graph.structure_changed THEN EnsureTopologicalOrder(g) ELSE g
            snapshot == RestoredSnapshot(t, e, fails)
            r == Rollback(t, e, fails)
<1>1. GraphExact(o, g) /\ RowsExact(o, g, arr, rules) /\ (clean => SnapshotExact(g, arr, e.snapshot))
  BY DEF Undoes
<1>2. GraphExact(o, h) /\ SameGraph(g, h)
  <2>. HIDE DEF g
  <2>1. GraphExact(o, EnsureTopologicalOrder(g)) /\ SameGraph(g, EnsureTopologicalOrder(g))
    BY <1>1, EnsureExact
  <2>. QED BY <1>1, <2>1 DEF SameGraph
<1>3. later => SnapshotExact(g, arr, snapshot)
  BY <1>1 DEF RestoredSnapshot
<1>4. Layers(r) /\ r.graph = h /\ r.arr = arr /\ r.rules = rules /\ r.snapshot = snapshot
  <2>. DEFINE req == RestoreRows(t.req, e.requireds, g.nets)
              closure == ClosureRollback(t.closure, e.closure)
              marks == RestoredMarks(t, e, g.nets)
  <2>1. r = [t EXCEPT !.graph = h, !.arr = arr, !.req = req, !.closure = closure, !.rules = rules,
                      !.required_dirty = marks, !.active = FALSE, !.prepared = FALSE,
                      !.snapshot = snapshot]
    BY DEF Rollback
  <2>. HIDE DEF r, h, arr, req, closure, rules, marks, snapshot, g
  <2>. QED BY <2>1 DEF Layers
<1>. HIDE DEF r, h, arr, rules, snapshot, g
<1>5. Exact(o, r, later)
  BY <1>1, <1>2, <1>3, <1>4, ExactOn
<1>. QED BY <1>5 DEF r

\* The loads of a netlist are numbers.
LEMMA InstanceLoadsType ==
  ASSUME NEW o \in Owners, NEW count \in Nat, NEW inst, \A i \in Ids : inst[i] \in Instances
  PROVE  InstanceLoads(o, inst, count) \in [1..count -> Int]
<1>1. PICK f : /\ InstanceLoads(o, inst, count) = f[Cardinality(Ids)]
               /\ LoadsBy(o, EmptyRows(count, 0), inst, Ids, 1, count, f)
  BY InstanceLoadSteps
<1>2. Cardinality(Ids) \in Nat
  BY DesignAssumption, FS_CardinalityType
<1>. QED BY <1>1, <1>2 DEF LoadsBy

\* A propagation of every net is exact.
LEMMA FullPropagation ==
  ASSUME NEW o \in Owners, NEW g, GraphType(g), Ordered(g)
  PROVE  Fix(o, g, UpdateArrivals(o, g, EmptyRows(g.nets, NoRow), Nets(g)).arr)
<1>. DEFINE start == EmptyRows(g.nets, NoRow)
            seeds == Nets(g)
            forward == UpdateArrivals(o, g, start, seeds)
<1>1. RowsType(g, start) /\ seeds \in SUBSET Nat /\ \A n \in 1..g.nets : n \in seeds
  BY DEF RowsType, Row, EmptyRows, NoRow, Nets, GraphType
<1>. HIDE DEF start, seeds
<1>2. (\A n \in 1..g.nets : n \notin seeds /\ Free(o, g, n) => start[n] = PropagateSlots(o, g, start, n))
         => Fix(o, g, forward.arr)
  BY <1>1, ArrivalsExact
<1>3. \A n \in 1..g.nets : n \notin seeds /\ Free(o, g, n) => start[n] = PropagateSlots(o, g, start, n)
  BY <1>1
<1>4. Fix(o, g, forward.arr)
  BY <1>2, <1>3
<1>. QED BY <1>4 DEF start, seeds

\* What a new owner computes is exact.
LEMMA NewOwnerExact ==
  ASSUME NEW o \in Owners, NEW clean
  PROVE  Exact(o, NewOwner(o, Design, NetCount), clean)
<1>. DEFINE load == InstanceLoads(o, Design, NetCount)
            s == [inst |-> Design, nets |-> NetCount, load |-> load,
                  order |-> <<>>, plan |-> {}, stale |-> TRUE, generation |-> 0]
            g == BuildGraph(o, Design, NetCount)
            seeds == Nets(g)
            start == EmptyRows(g.nets, NoRow)
            arr == UpdateArrivals(o, g, start, seeds).arr
            t == NewOwner(o, Design, NetCount)
<1>1. GraphExact(o, s)
  <2>1. InstType(Design, NetCount) /\ NetCount \in Nat /\ Acyclic(Design, NetCount)
    BY DesignAssumption DEF InstType, Instances
  <2>2. load \in [1..NetCount -> Int]
    BY <2>1, InstanceLoadsType DEF InstType
  <2>. HIDE DEF load
  <2>3. GraphType(s) /\ s.stale = TRUE /\ s.inst = Design /\ s.nets = NetCount /\ s.load = load
    BY <2>1, <2>2 DEF GraphType, GraphShape
  <2>. HIDE DEF s
  <2>. QED BY <2>1, <2>3 DEF GraphExact, OrderKept, load
<1>2. g = EnsureTopologicalOrder(s)
  BY DEF BuildGraph
<1>3. GraphExact(o, g) /\ Ordered(g)
  <2>. HIDE DEF s
  <2>. QED BY <1>1, <1>2, EnsureExact
<1>. HIDE DEF s, g
<1>4. Fix(o, g, arr)
  BY <1>3, FullPropagation DEF GraphExact
<1>5. /\ Layers(t) /\ t.graph = g /\ t.arr = arr /\ t.rules = DesignRuleBuild(o, g, arr)
      /\ t.snapshot = NoSnapshot
  <2>. DEFINE req == UpdateRequireds(o, g, arr, EmptyRows(g.nets, NoTime), Nets(g)).req
              closure == ClosureBuild(o, g, arr)
  <2>1. t = [graph |-> g, arr |-> arr, req |-> req, closure |-> closure,
             rules |-> DesignRuleBuild(o, g, arr),
             required_dirty |-> {}, active |-> FALSE, prepared |-> FALSE, snapshot |-> NoSnapshot]
    BY DEF NewOwner, PropagateAll, g
  <2>. HIDE DEF t, arr, req, closure
  <2>. QED BY <2>1 DEF Layers
<1>. HIDE DEF t, arr
<1>6. Exact(o, t, clean)
  BY <1>3, <1>4, <1>5 DEF Exact, RowsExact, SnapshotExact
<1>. QED BY <1>6 DEF t

-----------------------------------------------------------------------------
(***************************************************************************)
(* Every owner is exact.                                                   *)
(***************************************************************************)

\* Every owner is exact and inside a transaction its edit leads back to an
\* exact owner.
OwnersExact ==
    \A o \in Owners :
        /\ Exact(o, timing[o], o \notin unrestored)
        /\ Open => Undoes(o, timing[o], edit.timing[Slot(o)], o \notin unrestored)

\* An owner with the same graph, rows and rules, and a snapshot as good.
SameLayers(t, u) ==
    Layers(u) /\ u.graph = t.graph /\ u.arr = t.arr /\ u.rules = t.rules

\* Exactness carries over to an owner with the same layers.
LEMMA ExactSame ==
  ASSUME NEW o, NEW t, NEW u, NEW clean, Exact(o, t, clean), SameLayers(t, u),
         clean => SnapshotExact(t.graph, t.arr, u.snapshot)
  PROVE  Exact(o, u, clean)
BY DEF Exact, SameLayers

\* So does what an edit leads back to.
LEMMA UndoesSame ==
  ASSUME NEW o, NEW t, NEW u, NEW e, NEW clean, Undoes(o, t, e, clean), SameLayers(t, u)
  PROVE  Undoes(o, u, e, clean)
BY DEF Undoes, SameLayers

\* New owners are exact.
LEMMA InitExact == Init => OwnersExact
<1>. SUFFICES ASSUME Init PROVE OwnersExact
  OBVIOUS
<1>1. ~Open /\ \A o \in Owners : timing[o] = NewOwner(o, Design, NetCount)
  BY DEF Init, Open
<1>. QED BY <1>1, NewOwnerExact DEF OwnersExact

\* Rolling back the owners with an edit, which are the first count.
LEMMA RollbackTimingExact ==
  ASSUME NEW owners, NEW edits, NEW failing, NEW count \in Nat, count <= Len(OwnerOrder),
         DOMAIN edits = 1..count, NEW spoilt, NEW o \in Owners,
         Exact(o, owners[o], o \notin spoilt),
         Slot(o) <= count => Undoes(o, owners[o], edits[Slot(o)], o \notin spoilt)
  PROVE  Exact(o, RollbackTiming(owners, edits, failing)[o], o \notin spoilt \cup failing)
<1>. DEFINE later == o \notin spoilt \cup failing
            clean == o \notin spoilt
            back == RollbackTiming(owners, edits, failing)
            fails == o \in failing
<1>1. o \in Edited(edits) <=> Slot(o) <= count
  BY EditedFacts
<1>2. (later => clean /\ ~fails) /\ Layers(owners[o])
  BY DEF Exact
<1>3. CASE Slot(o) <= count
  <2>1. back[o] = Rollback(owners[o], edits[Slot(o)], fails)
    BY <1>1, <1>3 DEF RollbackTiming
  <2>2. Undoes(o, owners[o], edits[Slot(o)], clean)
    BY <1>3
  <2>. HIDE DEF later, clean, back, fails
  <2>3. Exact(o, back[o], later)
    BY <1>2, <2>1, <2>2, RollbackExact
  <2>. QED BY <2>3 DEF later, back
<1>4. CASE ~(Slot(o) <= count)
  <2>1. back[o] = owners[o]
    BY <1>1, <1>4 DEF RollbackTiming
  <2>2. Exact(o, owners[o], clean)
    OBVIOUS
  <2>. HIDE DEF later, clean, back, fails
  <2>3. Exact(o, back[o], later)
    BY <1>2, <2>1, <2>2 DEF Exact
  <2>. QED BY <2>3 DEF later, back
<1>. QED BY <1>3, <1>4

\* The owners after the loop of apply have what they answered or are as they
\* were, and the edits are those they answered.
AnswerOf(o, delta, defer, failure) ==
    ApplyRegionDelta(o, timing[o], delta, defer, IF failure.owner = o THEN failure.stage ELSE "none")

\* What the loop of apply keeps of an owner's answer.
LEMMA ApplyTimingAnswers ==
  ASSUME NEW delta, NEW defer, NEW failure, NEW o \in Owners
  PROVE  LET a == ApplyTiming(delta, defer, failure) IN
         /\ a.timing[o] \in {AnswerOf(o, delta, defer, failure).owner, timing[o]}
         /\ Slot(o) \in DOMAIN a.edits => a.edits[Slot(o)] = AnswerOf(o, delta, defer, failure).edit
<1>. DEFINE answer == [p \in Owners |->
                         ApplyRegionDelta(p, timing[p], delta, defer,
                                          IF failure.owner = p THEN failure.stage ELSE "none")]
            refusing == {k \in DOMAIN OwnerOrder : ~answer[OwnerOrder[k]].ok}
            edited == IF refusing = {} THEN Len(OwnerOrder) ELSE Min(refusing) - 1
            after == [p \in Owners |-> IF Slot(p) <= edited + 1 THEN answer[p].owner ELSE timing[p]]
            edits == [k \in 1..edited |-> answer[OwnerOrder[k]].edit]
            a == ApplyTiming(delta, defer, failure)
<1>1. a = [ok |-> refusing = {}, timing |-> after, edits |-> edits]
  BY DEF ApplyTiming, UpToRefusal
<1>2. OwnerOrder[Slot(o)] = o
  BY SlotFacts
<1>3. answer[o] = AnswerOf(o, delta, defer, failure)
  BY DEF AnswerOf
<1>. HIDE DEF answer, a, edited, refusing
<1>4. a.timing = after /\ a.edits = edits
  BY <1>1
<1>5. a.timing[o] \in {answer[o].owner, timing[o]}
  BY <1>4
<1>6. Slot(o) \in DOMAIN a.edits => a.edits[Slot(o)] = answer[o].edit
  BY <1>2, <1>4
<1>. QED BY <1>3, <1>5, <1>6 DEF a

\* Every owner answers exactly; the first count have their edit.
LEMMA ApplyTimingExact ==
  ASSUME IInv, OwnersExact, edit = NoEdit, NEW delta \in Deltas, delta # <<>>, Applicable(delta),
         NEW defer, NEW failure, NEW count,
         AppliedTo(delta, ApplyTiming(delta, defer, failure), count), NEW o \in Owners
  PROVE  LET a == ApplyTiming(delta, defer, failure) IN
         /\ Exact(o, a.timing[o], o \notin unrestored)
         /\ Slot(o) <= count => Undoes(o, a.timing[o], a.edits[Slot(o)], o \notin unrestored)
<1>. DEFINE a == ApplyTiming(delta, defer, failure)
            r == AnswerOf(o, delta, defer, failure)
            clean == o \notin unrestored
<1>1. Exact(o, timing[o], clean) /\ timing[o].active = FALSE
  BY NotOpen DEF OwnersExact, IInv, Aligned
<1>2. DeltaFits(timing[o].graph, delta)
  <2>1. DOMAIN delta \in SUBSET Ids /\ delta = [i \in DOMAIN delta |-> delta[i]]
    BY DesignAssumption
  <2>2. \A i \in DOMAIN delta : delta[i] \in Instances
    BY DEF Instances
  <2>3. \A i \in DOMAIN delta : InstanceNets(delta[i]) \subseteq 1..(timing[o].graph.nets + 1)
    BY DEF Applicable
  <2>. QED BY <2>1, <2>2, <2>3 DEF DeltaFits
<1>. HIDE DEF clean
<1>3. AnswersExactly(o, r, clean)
  BY <1>1, <1>2, ApplyExact DEF AnswerOf
<1>4. /\ a.timing[o] \in {r.owner, timing[o]}
      /\ Slot(o) \in DOMAIN a.edits => a.edits[Slot(o)] = r.edit
  BY ApplyTimingAnswers
<1>5. /\ Slot(o) <= count => Slot(o) \in DOMAIN a.edits /\ a.timing[o].active = TRUE
  <2>1. count \in Int /\ DOMAIN a.edits = 1..count /\ (Slot(o) <= count => a.timing[o].active = TRUE)
    BY SlotFacts DEF AppliedTo
  <2>. HIDE DEF a
  <2>2. Slot(o) \in Int /\ Slot(o) >= 1
    BY SlotFacts
  <2>. QED BY <2>1, <2>2
<1>6. r.owner.active = r.ok
  <2>1. /\ DOMAIN delta \subseteq Ids /\ OwnerShape(timing[o])
        /\ timing[o].graph.inst = [i \in Ids |-> timing[o].graph.inst[i]]
        /\ timing[o].active = FALSE /\ timing[o].prepared = FALSE
    BY <1>1, DesignAssumption DEF IInv, Aligned
  <2>2. Answers(timing[o], delta, r)
    BY <2>1, ApplyFacts DEF AnswerOf
  <2>. QED BY <2>2 DEF Answers
<1>. HIDE DEF a, r
<1>7. Exact(o, a.timing[o], clean)
  BY <1>1, <1>3, <1>4 DEF AnswersExactly
<1>8. Slot(o) <= count => Undoes(o, a.timing[o], a.edits[Slot(o)], clean)
  <2>. SUFFICES ASSUME Slot(o) <= count PROVE Undoes(o, a.timing[o], a.edits[Slot(o)], clean)
    OBVIOUS
  <2>1. a.timing[o].active = TRUE /\ a.edits[Slot(o)] = r.edit
    BY <1>4, <1>5
  <2>2. a.timing[o] = r.owner /\ r.ok
    BY <1>1, <1>4, <1>6, <2>1
  <2>. QED BY <1>3, <2>1, <2>2 DEF AnswersExactly
<1>. QED BY <1>7, <1>8 DEF a, clean

\* A transaction that begins leaves exact owners with edits that lead back; one
\* that is refused leaves exact owners.
LEMMA BeginExact ==
  ASSUME IInv, OwnersExact, NEW delta \in Deltas, NEW defer, NEW failure,
         Begin(delta, defer, failure)
  PROVE  OwnersExact'
<1>1. edit = NoEdit /\ Applicable(delta)
  BY DEF Begin
<1>2. CASE delta = <<>>
  <2>1. Applied(delta, [ok |-> TRUE, timing |-> timing, edits |-> <<>>])
    BY <1>2 DEF Begin
  <2>2. timing' = timing /\ edit' = [timing |-> <<>>, mapped |-> mapped] /\ unrestored' = unrestored
    BY <2>1 DEF Applied
  <2>3. ~Open'
    BY <2>2 DEF Open
  <2>. QED BY <2>2, <2>3 DEF OwnersExact
<1>3. CASE delta # <<>>
  <2>. DEFINE a == ApplyTiming(delta, defer, failure)
  <2>1. PICK count \in 0..Len(OwnerOrder) : AppliedTo(delta, a, count)
    BY <1>1, ApplyTimingFacts
  <2>2. Applied(delta, a)
    BY <1>3 DEF Begin
  <2>3. \A o \in Owners :
           /\ Exact(o, a.timing[o], o \notin unrestored)
           /\ Slot(o) <= count => Undoes(o, a.timing[o], a.edits[Slot(o)], o \notin unrestored)
    BY <1>1, <1>3, <2>1, ApplyTimingExact
  <2>4. count \in Nat /\ count <= Len(OwnerOrder) /\ DOMAIN a.edits = 1..count
        /\ (a.ok => count = Len(OwnerOrder))
    <3>1. Len(OwnerOrder) \in Nat
      BY OwnersAssumption, LenProperties
    <3>. QED BY <2>1, <3>1 DEF AppliedTo
  <2>. HIDE DEF a
  <2>5. CASE a.ok
    <3>1. timing' = a.timing /\ edit' = [timing |-> a.edits, mapped |-> mapped]
          /\ unrestored' = unrestored
      BY <2>2, <2>5 DEF Applied
    <3>2. edit'.timing = a.edits
      BY <3>1
    <3>3. \A o \in Owners : Slot(o) <= count
      BY <2>4, <2>5, SlotFacts
    <3>. QED BY <2>3, <3>1, <3>2, <3>3 DEF OwnersExact
  <2>6. CASE ~a.ok
    <3>1. PICK failing : /\ timing' = RollbackTiming(a.timing, a.edits, failing)
                         /\ unrestored' = unrestored \cup failing
      BY <2>2, <2>6 DEF Applied
    <3>2. edit' = NoEdit /\ ~Open'
      BY <1>1, <2>2, <2>6 DEF Applied, Open
    <3>3. ASSUME NEW o \in Owners PROVE Exact(o, timing'[o], o \notin unrestored')
      BY <2>3, <2>4, <3>1, RollbackTimingExact
    <3>. QED BY <3>2, <3>3 DEF OwnersExact
  <2>. QED BY <2>5, <2>6
<1>. QED BY <1>2, <1>3

\* A rollback, explicit or of a failed commit, leaves exact owners.
LEMMA RollbackAppliedExact ==
  ASSUME IInv, OwnersExact, edit # NoEdit, NEW owners, NEW failing, RollbackApplied(owners, failing),
         \A o \in Owners : SameLayers(timing[o], owners[o]) /\ owners[o].snapshot = timing[o].snapshot
  PROVE  OwnersExact'
<1>1. /\ timing' = RollbackTiming(owners, edit.timing, failing)
      /\ edit' = NoEdit /\ unrestored' = unrestored \cup failing
  BY DEF RollbackApplied
<1>2. PICK count \in Nat : /\ count <= Len(OwnerOrder) /\ DOMAIN edit.timing = 1..count
                           /\ \A o \in Owners : Slot(o) <= count => Open
  <2>1. Len(OwnerOrder) \in Nat /\ \A o \in Owners : ~(Slot(o) <= 0)
    BY OwnersAssumption, LenProperties, SlotFacts
  <2>2. CASE edit.timing = <<>>
    <3>1. DOMAIN edit.timing = 1..0 /\ 0 \in Nat /\ 0 <= Len(OwnerOrder)
      BY <2>1, <2>2
    <3>. QED BY <2>1, <3>1
  <2>3. CASE edit.timing # <<>>
    <3>1. DOMAIN edit.timing = 1..Len(OwnerOrder) /\ Open
      BY <2>3 DEF IInv, EditExact, Open
    <3>. QED BY <2>1, <3>1
  <2>. QED BY <2>2, <2>3
<1>3. ASSUME NEW o \in Owners PROVE Exact(o, timing'[o], o \notin unrestored')
  <2>. DEFINE clean == o \notin unrestored
  <2>1. Exact(o, timing[o], clean) /\ (Open => Undoes(o, timing[o], edit.timing[Slot(o)], clean))
    BY DEF OwnersExact
  <2>2. SameLayers(timing[o], owners[o]) /\ owners[o].snapshot = timing[o].snapshot
    OBVIOUS
  <2>. HIDE DEF clean
  <2>3. Exact(o, owners[o], clean)
    BY <2>1, <2>2, ExactSame DEF Exact
  <2>4. Slot(o) <= count => Undoes(o, owners[o], edit.timing[Slot(o)], clean)
    BY <1>2, <2>1, <2>2, UndoesSame
  <2>. QED BY <1>1, <1>2, <2>3, <2>4, RollbackTimingExact DEF clean
<1>4. ~Open'
  BY <1>1 DEF Open
<1>. QED BY <1>3, <1>4 DEF OwnersExact

\* Preparing and ending a commit leave the layers alone.
LEMMA PreparedExact ==
  ASSUME OwnersExact, NEW k, NEW o \in Owners
  PROVE  SameLayers(timing[o], PreparedUpTo(k)[o]) /\ PreparedUpTo(k)[o].snapshot = timing[o].snapshot
<1>1. Layers(timing[o])
  BY DEF OwnersExact, Exact
<1>2. PreparedUpTo(k)[o] \in {timing[o], PrepareCommit(timing[o])}
  BY DEF PreparedUpTo
<1>. QED BY <1>1, <1>2 DEF SameLayers, Layers, PrepareCommit

\* A commit leaves exact owners.
LEMMA CommitExact ==
  ASSUME OwnersExact, Commit
  PROVE  OwnersExact'
<1>. DEFINE prepared == PreparedUpTo(Len(edit.timing))
<1>1. /\ edit' = NoEdit /\ unrestored' = unrestored
      /\ timing' = [o \in Owners |-> IF o \in Edited(edit.timing)
                                     THEN CommitPrepared(prepared[o]) ELSE prepared[o]]
  BY DEF Commit
<1>2. ASSUME NEW o \in Owners
      PROVE  SameLayers(timing[o], prepared[o]) /\ prepared[o].snapshot = timing[o].snapshot
  BY PreparedExact
<1>. HIDE DEF prepared
<1>3. ASSUME NEW o \in Owners PROVE Exact(o, timing'[o], o \notin unrestored')
  <2>. DEFINE clean == o \notin unrestored
  <2>1. timing'[o] \in {prepared[o], CommitPrepared(prepared[o])}
    BY <1>1
  <2>2. SameLayers(timing[o], timing'[o]) /\ timing'[o].snapshot = timing[o].snapshot
    BY <1>2, <2>1 DEF SameLayers, Layers, CommitPrepared
  <2>3. Exact(o, timing[o], clean)
    BY DEF OwnersExact
  <2>. HIDE DEF clean
  <2>4. Exact(o, timing'[o], clean)
    BY <2>2, <2>3, ExactSame DEF Exact
  <2>. QED BY <1>1, <2>4 DEF clean
<1>4. ~Open'
  BY <1>1 DEF Open
<1>. QED BY <1>3, <1>4 DEF OwnersExact

\* A frontier query touches required rows and the order only.
LEMMA QueryFrontierExact ==
  ASSUME IInv, OwnersExact, NEW o \in Owners, QueryFrontier(o)
  PROVE  OwnersExact'
<1>1. PICK fails : timing' = [timing EXCEPT ![o] = SynchronizeRequireds(o, @, fails)]
  BY DEF QueryFrontier
<1>2. UNCHANGED <<edit, unrestored>> /\ ~timing[o].active
  BY DEF QueryFrontier
<1>3. ~Open /\ ~Open'
  BY <1>2 DEF IInv, Aligned, Open
<1>4. \A p \in Owners : Exact(p, timing[p], p \notin unrestored)
  BY DEF OwnersExact
<1>5. Exact(o, SynchronizeRequireds(o, timing[o], fails), o \notin unrestored)
  <2>. DEFINE clean == o \notin unrestored
  <2>1. Exact(o, timing[o], clean)
    BY <1>4
  <2>. HIDE DEF clean
  <2>2. Exact(o, SynchronizeRequireds(o, timing[o], fails), clean)
    BY <2>1, SynchronizeExact
  <2>. QED BY <2>2 DEF clean
<1>6. timing = [p \in Owners |-> timing[p]]
  BY DEF IInv
<1>7. \A p \in Owners : timing'[p] = IF p = o THEN SynchronizeRequireds(o, timing[o], fails) ELSE timing[p]
  BY <1>1, <1>6
<1>8. \A p \in Owners : Exact(p, timing'[p], p \notin unrestored')
  BY <1>2, <1>4, <1>5, <1>7
<1>. QED BY <1>3, <1>8 DEF OwnersExact

\* A snapshot query caches the present graph and rows.
LEMMA QuerySnapshotExact ==
  ASSUME IInv, OwnersExact, NEW o \in Owners, QuerySnapshot(o)
  PROVE  OwnersExact'
<1>. DEFINE t == timing[o]
            snapshot == IF t.snapshot = NoSnapshot THEN ElectricalSnapshot(o, t) ELSE t.snapshot
            u == [t EXCEPT !.snapshot = snapshot]
            clean == o \notin unrestored
<1>1. timing' = [timing EXCEPT ![o] = u] /\ UNCHANGED <<mapped, edit, unrestored>>
  BY DEF QuerySnapshot
<1>2. timing = [p \in Owners |-> timing[p]]
  BY DEF IInv
<1>3. \A p \in Owners : timing'[p] = IF p = o THEN u ELSE timing[p]
  <2>. HIDE DEF u
  <2>. QED BY <1>1, <1>2
<1>4. Exact(o, t, clean) /\ (Open => Undoes(o, t, edit.timing[Slot(o)], clean))
  BY DEF OwnersExact
<1>5. clean => SnapshotExact(t.graph, t.arr, snapshot)
  <2>1. ElectricalSnapshot(o, t) = SnapshotOf(t.graph, t.arr)
    BY DEF ElectricalSnapshot, SnapshotOf, Nets
  <2>. HIDE DEF t
  <2>. QED BY <1>4, <2>1 DEF Exact, SnapshotExact
<1>. HIDE DEF t, snapshot, clean
<1>6. SameLayers(t, u) /\ u.snapshot = snapshot
  BY <1>4 DEF Exact, Layers, SameLayers
<1>. HIDE DEF u
<1>7. Exact(o, u, clean) /\ (Open => Undoes(o, u, edit.timing[Slot(o)], clean))
  BY <1>4, <1>5, <1>6, ExactSame, UndoesSame
<1>8. Open' <=> Open
  BY <1>1 DEF Open
<1>9. ASSUME NEW p \in Owners
      PROVE  /\ Exact(p, timing'[p], p \notin unrestored')
             /\ Open => Undoes(p, timing'[p], edit'.timing[Slot(p)], p \notin unrestored')
  <2>1. CASE p = o
    BY <1>1, <1>3, <1>7, <2>1 DEF clean
  <2>2. CASE p # o
    BY <1>1, <1>3, <2>2 DEF OwnersExact
  <2>. QED BY <2>1, <2>2
<1>. QED BY <1>8, <1>9 DEF OwnersExact

\* Every step keeps the owners exact.
LEMMA NextExact == IInv /\ OwnersExact /\ [Next]_vars => OwnersExact'
<1>. SUFFICES ASSUME IInv, OwnersExact, [Next]_vars PROVE OwnersExact'
  OBVIOUS
<1>0. \A o \in Owners : SameLayers(timing[o], timing[o])
  BY DEF OwnersExact, Exact, SameLayers
<1>1. CASE UNCHANGED vars
  BY <1>1 DEF vars, OwnersExact, Open
<1>2. ASSUME NEW delta \in Deltas, NEW defer \in BOOLEAN, NEW failure \in Failures,
             Begin(delta, defer, failure)
      PROVE  OwnersExact'
  BY <1>2, BeginExact
<1>3. ASSUME NEW failing \in SUBSET Owners, RollbackEdit(failing)
      PROVE  OwnersExact'
  BY <1>0, <1>3, RollbackAppliedExact DEF RollbackEdit
<1>4. ASSUME NEW failing \in SUBSET Owners, NEW k \in 0..Len(edit.timing), CommitFails(k, failing)
      PROVE  OwnersExact'
  BY <1>4, PreparedExact, RollbackAppliedExact DEF CommitFails
<1>5. CASE Commit
  BY <1>5, CommitExact
<1>6. ASSUME NEW o \in Owners, QueryFrontier(o) \/ QuerySnapshot(o) PROVE OwnersExact'
  BY <1>6, QueryFrontierExact, QuerySnapshotExact
<1>. QED BY <1>1, <1>2, <1>3, <1>4, <1>5, <1>6 DEF Next

\* The owners are exact at all times.
LEMMA Exactness == Spec => []OwnersExact
BY InitExact, NextExact, Invariance, PTL DEF Spec

\* An order that is kept is current.
LEMMA KeptCurrent ==
  ASSUME NEW g, GraphType(g), OrderKept(g)
  PROVE  OrderCurrent(g)
<1>1. g.nets \in Nat /\ g.stale \in BOOLEAN
  BY DEF GraphType
<1>2. CASE g.stale = TRUE
  BY <1>2 DEF OrderCurrent
<1>3. CASE g.stale = FALSE
  <2>1. Ordered(g) /\ g.plan = Edges(g)
    BY <1>3 DEF OrderKept
  <2>2. DOMAIN g.order = 1..g.nets /\ Len(g.order) = g.nets
    BY <2>1, LenProperties DEF Ordered
  <2>3. /\ \A k \in 1..g.nets : g.order[k] \in 1..g.nets
        /\ \A n \in 1..g.nets : \E k \in 1..g.nets : g.order[k] = n
        /\ \A j, k \in 1..g.nets : <<g.order[j], g.order[k]>> \in Edges(g) => j < k
    <3>1. g.order \in Seq(1..g.nets)
      BY <2>1 DEF Ordered
    <3>2. g.order \in [1..Len(g.order) -> 1..g.nets]
      BY <3>1, LenProperties
    <3>3. \A k \in 1..g.nets : g.order[k] \in 1..g.nets
      BY <2>2, <3>2
    <3>. QED BY <2>1, <3>3 DEF Ordered
  <2>4. ToSet(g.order) = Nets(g)
    BY <2>2, <2>3 DEF ToSet, Nets
  <2>5. ListsNets(g.order, g.nets)
    BY <2>1 DEF Ordered, ListsNets
  <2>6. ASSUME NEW e \in Edges(g) PROVE Position(g, e[1]) < Position(g, e[2])
    <3>1. e = <<e[1], e[2]>> /\ e[1] \in 1..g.nets /\ e[2] \in 1..g.nets
      <4>1. InstType(g.inst, g.nets)
        BY DEF GraphType
      <4>2. Edges(g) \in SUBSET ((1..g.nets) \X (1..g.nets))
        BY <4>1, EdgeFacts
      <4>. QED BY <4>2
    <3>2. /\ Position(g, e[1]) \in 1..g.nets /\ g.order[Position(g, e[1])] = e[1]
          /\ Position(g, e[2]) \in 1..g.nets /\ g.order[Position(g, e[2])] = e[2]
      BY <1>1, <2>5, <3>1, PositionFacts
    <3>3. <<g.order[Position(g, e[1])], g.order[Position(g, e[2])]>> \in Edges(g)
      BY <3>1, <3>2
    <3>. QED BY <2>3, <3>2, <3>3
  <2>. QED BY <2>1, <2>2, <2>4, <2>6 DEF OrderCurrent
<1>. QED BY <1>1, <1>2, <1>3

\* What is exact is what a full propagation of the graph computes, where no
\* resistance is upstream.
LEMMA ExactMeans ==
  ASSUME NEW o \in Owners, NEW t, NEW clean, Exact(o, t, clean)
  PROVE  LET g == t.graph
             built == BuildGraph(o, g.inst, g.nets)
             exact == UpdateArrivals(o, built, EmptyRows(built.nets, NoRow), Nets(built)).arr
         IN  /\ OrderCurrent(g) /\ g.load = InstanceLoads(o, g.inst, g.nets)
             /\ DOMAIN t.arr = Nets(g)
             /\ \A n \in Nets(g) : Shielded(o, g, n) => t.arr[n] = exact[n]
             /\ t.rules = DesignRuleBuild(o, g, t.arr)
<1>. DEFINE g == t.graph
            load == InstanceLoads(o, g.inst, g.nets)
            s == [inst |-> g.inst, nets |-> g.nets, load |-> load,
                  order |-> <<>>, plan |-> {}, stale |-> TRUE, generation |-> 0]
            built == BuildGraph(o, g.inst, g.nets)
            exact == UpdateArrivals(o, built, EmptyRows(built.nets, NoRow), Nets(built)).arr
<1>1. GraphExact(o, g) /\ RowsExact(o, g, t.arr, t.rules)
  BY DEF Exact
<1>2. built = EnsureTopologicalOrder(s)
  BY DEF BuildGraph
<1>. HIDE DEF g
<1>3. GraphExact(o, s) /\ SameGraph(g, s)
  <2>1. load = g.load
    BY <1>1 DEF GraphExact
  <2>. HIDE DEF load
  <2>2. /\ s.inst = g.inst /\ s.nets = g.nets /\ s.load = load /\ s.stale = TRUE
        /\ s.generation = 0 /\ GraphShape(s)
    BY DEF GraphShape
  <2>3. GraphType(s)
    <3>. HIDE DEF s
    <3>1. /\ g.nets \in Nat /\ g.load \in [1..g.nets -> Int] /\ InstType(g.inst, g.nets)
      BY <1>1 DEF GraphType, GraphExact
    <3>2. s.load \in [1..s.nets -> Int] /\ InstType(s.inst, s.nets) /\ s.nets \in Nat
      BY <2>1, <2>2, <3>1
    <3>3. s.stale \in BOOLEAN /\ s.generation \in Nat
      <4>1. s.stale = TRUE /\ s.generation = 0
        BY <2>2
      <4>2. s.stale \in BOOLEAN
        BY <4>1
      <4>. QED BY <4>1, <4>2
    <3>. QED BY <2>2, <3>2, <3>3 DEF GraphType
  <2>. HIDE DEF s
  <2>. QED BY <1>1, <2>1, <2>2, <2>3 DEF GraphExact, OrderKept, SameGraph
<1>. HIDE DEF s, built
<1>4. GraphExact(o, built) /\ SameGraph(s, built) /\ Ordered(built)
  BY <1>2, <1>3, EnsureExact
<1>5. SameGraph(g, built)
  BY <1>3, <1>4 DEF SameGraph
<1>6. Fix(o, built, exact)
  BY <1>4, FullPropagation DEF GraphExact
<1>7. Fix(o, built, t.arr) /\ RowsType(g, t.arr)
  BY <1>1, <1>5, RowsSame DEF RowsExact, Fix
<1>. HIDE DEF exact
<1>8. ASSUME NEW n \in 1..g.nets, Shielded(o, g, n) PROVE t.arr[n] = exact[n]
  <2>1. g.inst = built.inst /\ g.nets = built.nets
    BY <1>5 DEF SameGraph
  <2>2. Edges(g) = Edges(built)
    BY <2>1, SameInstances
  <2>3. Shielded(o, built, n)
    BY <1>8, <2>2 DEF Shielded, Predecessors
  <2>. QED BY <1>4, <1>6, <1>7, <2>1, <2>3, FixUnique DEF GraphExact
<1>9. g.load = InstanceLoads(o, g.inst, g.nets) /\ OrderCurrent(g)
  BY <1>1, KeptCurrent DEF GraphExact
<1>10. DOMAIN t.arr = Nets(g)
  BY <1>7 DEF RowsType, Nets
<1>11. \A n \in Nets(g) : Shielded(o, g, n) => t.arr[n] = exact[n]
  BY <1>8 DEF Nets
<1>. QED BY <1>1, <1>9, <1>10, <1>11 DEF RowsExact, g, exact, built

\* After any mixture of applied, refused, committed and rolled back edits, with
\* failures at any stage, every owner's order, loads and rules are those of a
\* full propagation, and so is the arrival row of every net that no net with a
\* drive or net resistance feeds.
THEOREM TimingForwardExact == Spec => []ForwardExact
<1>1. OwnersExact => ForwardExact
  <2>. SUFFICES ASSUME OwnersExact, NEW o \in Owners
                PROVE  LET g == timing[o].graph
                           built == BuildGraph(o, g.inst, g.nets)
                           exact == UpdateArrivals(o, built, EmptyRows(built.nets, NoRow), Nets(built)).arr
                       IN  /\ OrderCurrent(g) /\ g.load = InstanceLoads(o, g.inst, g.nets)
                           /\ DOMAIN timing[o].arr = Nets(g)
                           /\ \A n \in Nets(g) : Shielded(o, g, n) => timing[o].arr[n] = exact[n]
                           /\ timing[o].rules = DesignRuleBuild(o, g, timing[o].arr)
    BY DEF ForwardExact, ArrivalsOf
  <2>1. Exact(o, timing[o], o \notin unrestored)
    BY DEF OwnersExact
  <2>. QED BY <2>1, ExactMeans
<1>. QED BY <1>1, Exactness, PTL

\* A cached snapshot is the one of the present graph and rows, unless a rollback
\* of the owner reported a failure.
THEOREM TimingSnapshotCurrent == Spec => []SnapshotCurrent
<1>1. OwnersExact => SnapshotCurrent
  <2>1. ASSUME NEW t, NEW o PROVE ElectricalSnapshot(o, t) = SnapshotOf(t.graph, t.arr)
    BY DEF ElectricalSnapshot, SnapshotOf, Nets
  <2>. QED BY <2>1 DEF OwnersExact, Exact, SnapshotExact, SnapshotCurrent
<1>. QED BY <1>1, Exactness, PTL
=============================================================================
