# A TLA+ verification of opto's concurrency and transaction core

opto is a logic-synthesis tool written in Rust. A Tcl shell drives a *session*
that owns a design, its timing and power constraints and an object registry;
analyses and optimisations run in parallel on a deterministic runtime, and
results are published back into the session. `docs/architecture.md` promises two
things about all of it: "Worker count and task completion order cannot change
the mapped result", and "Analysis is read-only parallel work; mutation and
publication are deterministic". This directory checks the code that has to
keep those promises: the scheduler, the transactions that give state back after
a failure (constraints, mapped netlist edits, and the timing that follows the
edits), and the replacement of files on disk.

Each module is a translation of the code under `src/crates/`; `PROJECT.json` maps
every definition to its lines, every run to its configuration and its properties,
and every hazard to the properties that would catch it.

## 1. Inventory

### Parts of the system

| Part | State it keeps | Operations | What is hard | What makes it correct |
|---|---|---|---|---|
| `opto-runtime/dependency.rs` worklist | item states, unresolved counters, ready set, two totals | seal a plan, schedule, claim (bounded), finish | incremental counters under any order of calls, two directions, masked edges | counters and ready set exact, nothing released early, nothing lost |
| `opto-runtime/indexed.rs` `publish_dependency_rows` | row arena, activation mask, journal, retained failure, in-flight count | prepare, analyze (on workers), publish, activate, finish, roll back | answers in any order, several failures, cancellation between any two steps | result and error of the sequential pass, atomic for the caller, returns |
| `opto-runtime/indexed.rs` `commit_indexed` | launch and commit cursors, reorder map, bounded channel | launch, receive, commit in order, join | out-of-order answers, failure with workers running | commits what the serial loop commits, bounded, returns |
| `opto-runtime/context.rs` keyed maps | launched, running, answers by key, metrics, cancel flag | `map_ordered`, `map_ordered_nested`, `map_ordered_composite`, `cancel` | completion order, slot refill, panics | results and errors by key, bounded admission, returns |
| `opto-session/state.rs` constraint transactions | stack of open checkpoints | checkpoint, commit, restore | nesting, stale tokens, three stores that must move together | a restore gives back exactly the checkpointed state |
| `opto-timing/constraints` | constraint rows, revision, undo journal, its own stack | every constraint command, record_undo, checkpoint, commit, rollback | inner commits, generated-clock closure | rows are the checkpoint's rows after undo |
| `opto-db/object/registry.rs` | object arena, name table, last UID | intern, remove, checkpoint, rollback | rollback by age and by name-table length | identities never reused, names of live objects resolve |
| `opto-session/use_case/atomic_file.rs` | temporary name sequence, a directory on disk | write_atomically | crash between steps, concurrent processes | target is one complete version; success is durable |
| `opto-session` synthesis publication | captured revisions | capture, publish | stale capture | publishes onto the state it read |
| `opto-ir/mapped` netlist and region edits | net, cell and pin slots, intrusive pin lists, name table, versions, revision, undo records | build, snapshot, plan, apply, roll back, name and repack for publication | stale plans, undo that must cover five tables, renumbering | always publishable, rollback exact, publication keeps the content |
| `opto-timing/engine/incremental.rs` owners | graph and order, arrival, required, endpoint and rule rows, deferred marks, cached snapshot | apply a region edit (eager or deferred), prepare, commit, roll back, query | each layer updates only what a change reaches and journals what it overwrites | rows are those of a full analysis |
| `opto-synth/closure/mapped_timing.rs` | one open transaction | begin, commit_with, roll back over the netlist and every owner | failure of one owner, of a preparation, of the caller | all views time the same netlist |
| `opto-session` checkpoint files, `opto-archive` | archive sections | save, load | partial files | file replacement is atomic; format is I/O |
| `opto-timing`, `opto-power` full analyses | rows of arrival, required, power | propagation, reports | scheduling (above) and floating point | same rows in any order |
| `opto-synth` | netlist candidates | mapping, closure, sizing | scheduling (above); heuristics | equivalence (checked by `opto-formal`) |
| `opto`, `opto-tcl-sys`, `opto-command-macros` | Tcl interpreter | commands, `read_sdc` | uses constraint transactions | an SDC file is all or nothing |
| `opto-hdl`, `opto-slang-sys`, `opto-library`, `opto-formats`, `opto-formal`, `opto-core` | parsed data, containers | parse, elaborate, prove, intern | sequential | input-output correctness |

### How they interact

```
 Tcl command ──► Session ──checkpoint──► TimingContext (journal, stack)
                    │      ──checkpoint──► ObjectRegistry (uid, name length)
                    │      write_* ─────► write_atomically ─► file system
                    ▼
             analysis / synthesis
                    │ publish_dependency_rows   commit_indexed   map_ordered*
                    ▼
             ExecutionContext ── rayon scope, sync_channel ──► workers

 optimizer ── plan on a snapshot ──► MappedTimingTransaction
                                        │ apply_region_delta      │ apply_region_delta
                                        ▼                         ▼ (each owner in turn)
                                   MappedNetlist            IncrementalTiming × views
```

* The timing analysis (`analysis.rs`, `required.rs`) and the power analysis
  (`analysis/state.rs`) call `publish_dependency_rows`; regional mapping
  (`engine/regional_mapping/epochs.rs`) calls `commit_indexed`; architecture
  mapping calls `map_ordered_composite` and multi-corner closure
  `map_ordered_nested`.
* Within one call the only shared state between the coordinator and the workers
  is the channel and the cancellation flag; the rows are borrowed by the
  coordinator alone and workers get owned inputs.
* The session is single threaded. What is hard there is not interleaving but
  long sequences: nested checkpoints, tokens kept after they became stale, and
  commands that fail halfway.
* Several opto processes, or one that died, may write the same file.
* The optimizer tries thousands of edits and keeps few. Each trial changes the
  netlist, then every timing owner; nearly all of them are rolled back. A rollback
  that is almost exact is not noticed by the trial that caused it.

The hazards, each at its line with the properties that cover it, are the
`hazards` of `PROJECT.json`.

## 2. Modules

| Module | Models | Notes |
|---|---|---|
| `DependencyWorklist` | `DependencyPlan`, `DependencyWorklist` | any interleaving of schedule, claim and finish |
| `AtomicPublication` | – | what a publication promises its caller |
| `DependencyPublication` | `publish_dependency_rows`, serial and parallel | extends the worklist; refines `AtomicPublication` |
| `DependencyPublicationProofs` | – | theorems about the worklist and the publication, the refinement included |
| `IndexedCommit` | `commit_indexed` | |
| `IndexedCommitProofs` | – | theorems about it |
| `OrderedMap` | the three keyed schedulers | |
| `OrderedMapProofs` | – | theorems about it |
| `ConstraintTransaction` | session checkpoints over timing and registry | three stores composed |
| `ConstraintTransactionProofs` | – | theorems about it |
| `AtomicFile` | `write_atomically` | file system external |
| `AtomicFileProofs` | – | theorems about it |
| `SequenceLemmas` | – | facts about numbers, sequences and induction that the proofs share |
| `MappedNetlist` | the mapped netlist: builder, validation, publication names, repacking | operators on a netlist value, no state |
| `MappedEdit` | snapshots, region deltas, undo records, publication | extends `MappedNetlist` |
| `MappedEditProofs` | – | theorems about it |
| `IncrementalTiming` | one timing owner, layer by layer | operators on an owner value, no state |
| `MappedTiming` | a transaction over the netlist and all owners | composes the owners |
| `MappedTimingProofs` | – | theorems about it and about one owner |
| `MC…` | – | constants for TLC |

### DependencyWorklist

The CSR rows become one set of neighbours per item, both orientations kept, with
positions and the sealing checks in `ValidPlan`. `state`, `unresolved`, `ready`,
`pending` and `running` are the struct's fields; `disabled` the runtime edge mask,
kept in forward orientation as in the code. `Schedule`, `Claim` and `Finish` are
the successful calls; `RefuseSchedule`, `EmptyClaim` and `RefuseFinish` the
refusals, whose answer is `outcome`. The code calls `schedule` only while it
builds a worklist, but its guard contemplates calls at any time, and so does the
model. "cycle" and "underflow", the two reports of a corrupted worklist, stay in
the model so that their absence is a theorem.

### DependencyPublication

`Start` is the entry of `publish_dependency_rows` with its validation and the
choice between one and several workers. The serial loop is `SerialClaim`,
`SerialSkip`, `SerialCancelled`, `SerialRun`; the parallel coordinator is split at
every point where another thread can act: `LoopTop` (read the flag, claim),
`DispatchSkip`/`DispatchFails`/`Spawn` per claimed item, `EndDispatch`, `Receive`.
`Work` is a worker (analyze and send), `Cancel` anyone at any time, `Resolve` the
return, with the rollback of the journal or its stabilisation. Callbacks are pure
functions of a snapshot, with the failures of `FaultMaps`: an error or a panic of
`prepare`, of `analyze`, or a publication of rows the item does not own. A
dependent is activated before its dependency finishes, as the code does.
The abstract `AtomicPublication` has two steps, commit to a consistent arena or
fail with the arena untouched; the mapping shows the caller the arena it lent
until the call returns.

### IndexedCommit

`Enter` is the prologue with the serial threshold, `SerialItem`/`SerialEnd` the
one-worker loop. In the parallel path `Send` is a worker, `Receive` takes an answer
into the reorder map, `CommitReady` commits the next item and launches one more,
`Gap` goes back to `recv`, `Join` is the end of the rayon scope, which waits for
every spawned task. `receiving` records that the receiver is dropped when the
scope's closure returns: a late `send` then fails and is ignored.

### OrderedMap

`composite` selects the scheduler. `Enter` sorts and refuses duplicate keys;
`SerialTask`/`SerialEnd` are the one-worker path; `FirstLaunches`, `RunComposite`,
`Receive` (with its refill), `Collect` the composite coordinator; `StartParallel`,
`EndParallel`, `JoinParallel` the plain parallel iterator, on any number of pool
threads: after a panic it starts other tasks or not, and unwinds once none runs. The
metrics are left out.

### ConstraintTransaction

Three stores and the tokens callers hold. A constraint is a row of its owner (row 0
the load of a port, row *u* the clock of object *u* with its master); a command
appends one journal record with the rows it replaces (the code appends one per
row or table it changes; a command's records are undone together). Commit and
restore consume their token, as the Rust values do; a token whose transaction was
closed by an outer one is stale, is refused, and changes nothing. `CreateClock` is
the whole use case: an inner checkpoint, intern, the timing command, and commit or
restore. The object's UID stays consumed when the inner restore removes it.
`DeleteClock` removes a clock with everything generated from it, from timing and
from the registry. Token identities are fresh in the code; the model reuses those
of consumed tokens, which nobody can present again.

### AtomicFile

One action per system call of `write_atomically`. `directory` is what the file
system shows, `disk` what certainly survives a power loss; after one, every entry
is what the last directory sync saw or what it became since, and unsynced contents
are lost. `Kill` ends one process; a restarted process may have the old identifier
and starts its name sequence at zero, so it comes upon the files it left, whose
contents (`earlier`) must not reach the target; `create_new` is what prevents it. Processes alive at the same time have
different identifiers, since they share one process-identifier space. A number of the
sequence is used up by every attempt, also by one that fails. A path without a file name is refused before anything
happens and is not an action. Assumed of the file system: `create_new` is
exclusive, `rename` is atomic, `fsync` of a file and of a directory do what POSIX
says.

### MappedNetlist and MappedEdit

A netlist is a record of the code's arenas: net and cell slots with a live flag and
a version, connections, pin owners, the head and tail of each net's pin list, the
links of each pin, the boundary, the name table and the counters. Slots are the
index plus one, so that 0 is `None`; a name is a pair of a class and an ordinal, so
that "a synthetic name" and "the prefix with a number" can be told apart. Names are
interned into a table that a rollback truncates, as in the code. `Freeze` builds the
initial netlist with the builder's operations.

A worker takes a snapshot (`TakeSnapshot`: versions of some cells and nets), and
later applies one of the plans the planning interface and the validation accept
(`ApplyDelta`), or drops it when `check_snapshot` refuses (`DropDelta`). `Applied`
runs the eight operations over the netlist and the undo record together, saving a
row the first time it is written. `Commit` drops an undo record, `Rollback` presents
one, at any time and in any order; the code refuses all but the last edit's.
`NamePublication` and `Finalize` are the end of a netlist's life. Undo records carry
one history field, `before`, and snapshots one, `seen`; they are compared with and
never used by the actions.

Plans do not depend on the order of the netlist's validity checks: what the checks
accept is a set, and plans are grown one operation at a time with each prefix
checked, which gives the same set because the checks are monotone in the plan.

### IncrementalTiming and MappedTiming

An owner keeps five layers. `ReplaceInstanceRegion` changes the graph, adjusts loads
by removal and addition, tells whether an edge changed and appends new nets to the
order; `EnsureTopologicalOrder` recomputes a stale order; `UpdateArrivals` and
`UpdateRequireds` visit the order from the seeds and stop where nothing changes;
`ClosureUpdate` re-indexes the endpoints of named instances and evaluates those on
changed nets; `DesignRuleUpdate` the rest. `ApplyRegionDeltaInner` (with
`AfterTopology`) runs them in the code's order with the undo of each failing stage; the deferred form leaves the
required rows alone and marks their seeds, and `SynchronizeRequireds` catches up.
A value per net stands for the slots per edge and delay type, a delay is a constant
plus the load times a slope plus the input's transition, and a flop has one data
input. From a net to each of its sinks there is in addition the wire's delay, the
net's resistance times its load (`WireDelay`); `Resistance` stands for `set_drive` of a
port and `set_resistance` of a net, which an edit does not change. Two views are
explored: one whose delays ignore the load, with a resistance on an inner net, and one
whose delays grow with the load.

`MappedTiming` is the transaction: `Begin` applies the netlist edit and then the
owners in order, any of which may refuse at any stage; `Commit` prepares all owners
and then commits; `CommitFails` stops after any number of preparations; both it and
`RollbackEdit` undo the owners and the netlist. The code
undoes the owners in reverse; each has its own state, so the order cannot be seen. A rollback can report a
failure after it has restored the layers and before it has put the cached snapshot
back; such an owner is listed in `unrestored`. The netlist is the map of its
instances, and its own undo, which `MappedEdit` is about, is `edit.mapped`.

## 3. Runs

`tlc -config <cfg> <module>` in this directory. Deadlock checking is on in every
run but `mapped_edit`, where a published netlist, and one at its bounds with nothing
held, is the end of the story; elsewhere a returned call stutters explicitly.

| Run | Instance | What it shows |
|---|---|---|
| `worklist` | `MCDependencyWorklist`, `DependencyWorklist.cfg`: four items in five plan shapes (chain, diamond, fork with a separate item, zigzag, complete order), all masks, both directions, claim limits 0, 1, 2 | counters and ready set exact; no early release; the least pending item is ready when nothing runs; the corruption reports are unreachable; every scheduled item completes |
| `publication` | `MCDependencyPublication`: a diamond and a fork with all masks, five rows of four items, two activations, fifteen fault maps, parallelism one or two | rows and errors are those of one sequential reference pass; snapshots are never stale; claims are accounted for and no worker outlives the loop; effects undo the call; the call refines `AtomicPublication`; it returns |
| `indexed_commit` | six items, every pair of faults, one or three workers, thresholds 4 and 2 in place of 64 and 32 | the commits are the serial prefix, the first failing item is reported, the item waited for is always in flight, in-flight work is bounded, the call returns |
| `ordered_map` | four tasks, with and without a duplicate key, two work estimates, every assignment of ok, error, panic, 1, 2 or 5 workers | result and error by key, bounded admission with full slots, return |
| `constraint_transactions` | two names (interchangeable, so explored up to symmetry), two UIDs, one load value, four revisions, three tokens; no delete inside an open transaction | restore is exact, the stacks agree, names resolve, masters exist, clock constraints refer to live objects, the registry is given back, UIDs are never reused |
| `constraint_delete` | three UIDs, delete allowed inside transactions | **violation** |
| `atomic_file` | two processes, two temporary names each, two renames, I/O faults anywhere | target always complete and of one call, success durable, no temporary left by a returned call |
| `atomic_file_bare_name` | one process, no faults | **violation** |
| `mapped_edit` | two workers, a netlist of three nets and two cells with a retained instance, one delta of two operations or two deltas of one, one more net, cell and pin | every reachable netlist is valid and publishable; accepted snapshots are current; the affected sets are exact; rollback is exact; repacking keeps the content |
| `mapped_timing` | two views, four identities, nine deltas (resize, reconnect, buffer insertion, reconvergence, removal, a loop, nothing), two transactions, a failure at any stage of any owner | all views have the netlist's instances; loads, rules and the arrivals that no resistance feeds are those of a full propagation and the order fits; endpoints are current; required rows are exact or upstream of a mark (constant-delay view); cached snapshots are current |
| `timing_loads` | a drive on the input port; a delta that adds a gate loading the input and the output net | **violation** |
| `timing_endpoints` | one delta that moves a flop's data pin | **violation** |

Why the bounds are enough. A worklist error needs an item, a dependency that
arrives late and a third item that keeps the traversal busy; four items give
chains, forks, joins and diamonds, and the proofs remove the bound. A publication
needs two concurrent items, one dependent on both and one independent, which the
two shapes give with every subset of their edges disabled. In `IndexedCommit` six
items with three workers give two refills and a gap of two. Three open
transactions show an outer close over two inner ones; two UIDs a master with its
generated clock, and exhaustion; the revision limit is reached, so the refusals
that come from it happen. A delta of two operations shows every pair of operations
that touch one row, which is where an undo record can be wrong; two deltas show
a plan made stale by another and an undo record overtaken by an edit. Two timing
transactions show a mark left by a committed edit under a rolled back one, a
stale order inherited from a failed edit, and a net appended twice. In `AtomicFile` two processes show one
rename landing between the other's rename and its directory sync.

The revision and UID limits stand for `u64::MAX`: in the model they are reached,
which the program never lives to see; the refusals they trigger are real code.

`constraint_transactions` forbids `delete_clock` inside an open transaction, because
two of its properties are false with it: that is `constraint_delete`. In section 5
only the theorems about these two, `TransactionReferencesLive` and
`TransactionObjectsRestored`, have the restriction as a hypothesis.

`ForwardExact` speaks of the arrivals of nets without a resisted net among those they
are computed from (`Shielded`), `RequiredsCurrent` is restricted to views whose cell delays do
not depend on the load, and the deltas of `mapped_timing` move a flop only together with a
propagation edge; `timing_loads` and `timing_endpoints` show what happens outside.

### Fairness

* `DependencyPublication`, `IndexedCommit`, `OrderedMap`: weak fairness of the
  coordinator (a running thread) and of the pool (rayon runs every spawned task of
  a scope, and callbacks terminate). Nothing is assumed of cancellation.
* `DependencyWorklist`: weak fairness of claiming and finishing, which is what both
  coordinators do; none of scheduling.
* Safety runs assume none.

## 4. Findings

1. `constraint_delete`: `delete_clock` inside a transaction that is then restored
   (an SDC file that fails after it) brings back the clock constraint and not its
   object, since registry rollback is for transactions that only create objects.
2. `atomic_file_bare_name`: for a bare file name the parent directory is the empty
   path; opening it for the directory sync fails after the rename, so the file is
   replaced and the command reports an error.
3. `timing_loads`, arrivals: an arrival contains the wire's delay from the net before, its
   resistance times its load. Adding or resizing a sink on a net with a drive or a net
   resistance changes that load; if the net's own arrival stays the same, as on every input
   port, the propagation ends there and the nets behind the other sinks keep their
   arrivals. Endpoint slacks, and with them the quality summary, are computed from
   these rows.
4. `timing_loads`, required times: the reverse propagation after an edit, immediate or
   deferred, starts at the edited nets and the nets whose arrival changed, and goes past a
   net only when that net's required time changed. The required time at a gate's input
   also contains the gate's delay, which depends on the load of its output net. A
   sink added to, or resized on, a net whose own required time stays the same
   leaves the rows of the nets before its driver stale, and no mark says so. They feed
   `instances_with_slack_at_most`, which picks the cells to optimize; reports use
   endpoint slacks, which are not affected by it. (In the counterexample of view `b` net 2
   has arrival 5 and required time 4; a full analysis gives 6 and 3.)
5. `timing_endpoints`: endpoints are re-indexed only when an edit changes the
   propagation graph. Reconnecting a flop's data pin alone does not, so its endpoint
   stays on the old net and the quality summary the optimizer compares is computed
   from the wrong arrival.

Seen while modelling, and not kept as runs:

* `DependencyEffects::rollback` is documented (`dependency.rs:457`) to replay in
  reverse stabilized order; the failing path replays in the reverse of publication
  order. Rows have one owner and an item publishes once, so the rows restored are
  right (`ImplementsAtomic`).
* `completed_task_callbacks` (`context.rs:350`, "Task callbacks that returned.") is not
  incremented on the composite scheduler's one-worker path, and counts cancelled and
  panicked tasks on its parallel path.
* `assign_publication_names` starts past the highest preserved *cell* name with the
  prefix; it does not look at retained design instances. With an instance named
  `U2` (`MCDesignsU` in place of `MCDesignsInst`), two synthetic cells make the
  publication fail on a duplicate name.
* `validate_operations` judges each operation against the netlist before the delta. A
  plan that removes a cell and then reconnects one of its pins, or reconnects a pin
  to a net the plan removes, passes (`SelfConflicting = TRUE`); the first panics when
  applied, the second leaves a connection to a dead net. No planner in `opto-synth`
  builds such a plan.
* A rollback restores the revision number, and the next edit stamps its rows with it
  again. A snapshot taken between an edit and its rollback would pass `check_snapshot`
  after another edit of the same rows (`DuringTrial = TRUE`). The optimizer plans
  between trials.
* When the compaction that ends `IncrementalTiming::rollback` fails, the cached
  electrical snapshot is not put back; one taken during the edit stays in the cache.
  `SnapshotCurrent` excepts these owners. The failure is an exhausted arena.

## 5. Proofs

Eight modules hold theorems or lemmas; `tlapm <module>.tla` checks one. Every theorem is for
all values of the constants, under the assumptions named with it, which are the
`ASSUME`s of the modules.

### Worklist

The first part of `DependencyPublicationProofs`, for every finite set of items, every set of sealed
plans, every mask, both directions and every set of claim limits:

| Theorem | Statement |
|---|---|
| `WorklistTypeCorrect` | `Spec => []TypeOK` |
| `WorklistExact` | `Spec => [](UnresolvedExact /\ CountsExact)` |
| `WorklistReadyExact` | `Spec => []ReadyExact` |
| `WorklistNoEarlyRelease` | `Spec => []NoEarlyRelease` |
| `WorklistLeastPendingReady` | `Spec => []LeastPendingIsReady` |
| `WorklistNoCorruption` | the "cycle" and "underflow" reports are unreachable |

Assumptions: `Items` finite, limits natural numbers, every plan accepted by
`ValidPlan` (which is what sealing enforces), directions as named.

The inductive invariant is `TypeOK /\ UnresolvedExact /\ ReadyExact /\ CountsExact
/\ NoEarlyRelease`. None of its parts is inductive alone: the counters stay exact
across a `finish` only because the finished item was outstanding for each of its
pending dependents, which needs exactness; that the ready set equals the
releasable items needs the counters; and a claim releases nothing early because
the ready set is exact. Each action changes the state of one item (or of the
claimed set), so the lemmas say how `Outstanding` changes when one item changes
state, and the cardinality facts come from `FiniteSetTheorems`. For the last two
theorems, a pending item with the least key has no pending dependency, since a
dependency in the traversal's direction has a smaller key, and no running one when
nothing runs; hence it is ready, and a claim that finds an empty ready set with
nothing running finds nothing pending.

### Publication

`DependencyPublicationProofs`, in addition for every ownership of rows, analysis
function, activation mask, fault map, worker count and moment of cancellation, and
every order of the answers:

| Theorem | Statement |
|---|---|
| `PublicationSnapshotsCurrent` | `PubSpec => []SnapshotsCurrent` |
| `PublicationClaimsAccounted` | `PubSpec => []ClaimsAccounted` |
| `PublicationEffectsUndo` | `PubSpec => []EffectsUndo` |
| `PublicationMatchesReference` | `PubSpec => []ResultMatchesReference` |
| `PublicationDetermined` | a success completed every scheduled item and left the only rows its inputs allow |
| `PublicationImplementsAtomic` | `PubSpec => ImplementsAtomic`: the refinement of `AtomicPublication` |

Assumptions, besides the worklist's: items are numbers, a row has at most one owner
(the partition check of `publish_dependency_rows`), inputs have their types, and
`AnalyzeAssumption`: `Analyze` gives one value for each owned row, whatever it
read. The faults that break it (an error, a panic, rows of another item) are in
the fault maps, outside `Analyze`.

The inductive invariant `PubInv` extends the worklist's. `ItemsPlaced` says that
each claimed item is in one place and that the in-flight counter counts the pool;
`PhaseOK` ties the coordinator's label to its variables; `NothingLost` says that
without a failure or a cancellation every running item is in the coordinator's
hands, so that the loop ends with nothing pending; `ContentExact` says what the arena
and the journal contain in terms of the caller's rows and the published items;
`ReturnedExact` what a return left. The centre of the argument is `ReadsApart`: by
`NoEarlyRelease` a claimed item owns no row that another claimed or complete item
reads. Hence a publication overwrites nothing a worker has read (`SnapshotsKept`),
and the rows of the items published before still agree with what they read
(`ContentPublish`). At the end the arena is an outcome of the inputs
(`OutcomeReached`), or undoing the journal, in which every published item has a
record of the caller's rows, gives the caller's rows back (`RollbackRestores`).
`OutcomeUnique` shows that an outcome is determined by the inputs: of two different
ones take the least item in traversal order on which they differ; its dependencies
agree, so it read the same and wrote the same. That is "worker count and task
completion order cannot change the mapped result". For the refinement, every step
before the return leaves the caller's view alone, the return is one of the two
abstract steps (`AtomicStep`), and later steps change nothing (`ReturnedStays`).

`PublicationMatchesReference` compares the run with `Reference`, one pass over the items
in key order that goes on after a failure. It says more than `PublicationDetermined`:
the reported items and rows are the pass's too, and an uncancelled call reports the least item the
pass fails on, with its kind of failure, whichever worker failed first. The pass is
a recursive function; `Rank` numbers the items so that dependencies come first, and
induction over the ranks shows `PassExact`: what the pass wrote, skipped, blocked and
failed for the items it has visited (`ReferenceExact`). `RunInv` extends `PubInv`:
answers tell the faults of `analyze` (`PoolSound`); the reported changes are those of
the rows (`ChangesExact`); without a cancellation the claimed items no one will answer for
are faulty ones and the least of them is retained (`FailuresExact`); and the loops
end only when nothing is ready (`NothingReady`). When a run without cancellation is over, then,
every item is complete, was skipped, failed, or waits for one that failed, and
`RunAgrees`, by induction in key order, shows that the pass treats it alike.

### Ordered commit

`IndexedCommitProofs`, for any number of items, parallelism, thresholds and faults:

| Theorem | Statement |
|---|---|
| `CommitSerialPrefix` | `Spec => []CommitsSerialPrefix` |
| `CommitAnswerIsComing` | `Spec => []AnswerIsComing` |
| `CommitInFlightBounded` | `Spec => []InFlightBounded` |

The inductive invariant rests on `WindowExact`: while the receiver lives, the items
with workers, in the channel and in the reorder map are, each once, the interval
from the next commit to the next launch, whose width is the worker count until the
items run out. The bound and "the answer is coming" are both readings of it: the
interval begins with the item waited for, and that item is not in the map.
`PrefixExact` and `ResultExact` add that everything below the next commit was
committed in order and that a failure is that of the next commit.

### Keyed maps

`OrderedMapProofs`, for any finite task vector (duplicate keys included), work
estimates, outcomes and worker count:

| Theorem | Statement |
|---|---|
| `MapOuterBounded` | `Spec => []OuterBounded` |
| `MapResultByKey` | `Spec => []ResultByKey` |

Needed besides the two: a started task is running, in the channel once, or answered
(`OnePlaceEach`); an answer is what the callback did, or a cancellation with the
flag set (`AnswersTruthful`); the serial path has run a prefix in key order
(`SerialPrefix`); the composite scheduler's slots are full while tasks remain
(`SlotsFull`). `IsqrtValue` shows that the integer square root used for the outer
parallelism exists for every number.

### Constraint transactions

`ConstraintTransactionProofs`, for any names, any limits and any number of tokens:

| Theorem | Statement |
|---|---|
| `TransactionTypeCorrect` | `Spec => []TypeOK` (no run repeats it) |
| `TransactionLockstep` | `Spec => []StacksInLockstep` |
| `TransactionRollbackExact` | `Spec => []RollbackExact` |
| `TransactionNamesResolve` | `Spec => []NamesResolve` |
| `TransactionUidsNeverReused` | `Spec => UidsNeverReused`, an action property |
| `TransactionMastersLive` | `Spec => []MastersLive` |
| `TransactionReferencesLive` | `Spec => []ReferencesLive`, if `~DeleteWhileOpen` |
| `TransactionObjectsRestored` | `Spec => ObjectsRestored`, an action property, if `~DeleteWhileOpen` |

`TransactionLockstep` includes that the outermost open checkpoint has journal
length 0 and that the journal is empty when none is open: the two
`debug_assert!(self.journal.is_empty())` of `commands.rs` hold.

The only assumption is that the limits are natural numbers. The last two theorems
have the hypothesis that no clock is deleted inside an open transaction, since
without it they are false (finding 1).

The inductive invariant adds one fact to four of the properties, `NamesKept`: an
object older than an open checkpoint has a name older than it. It is what makes
truncating the name table safe, and it holds because a name is interned before its
object gets a UID and UIDs are never handed out twice. `RollbackExact` rests on
three lemmas about `Replayed`, the effect of popping journal records: with nothing
to pop it is the current state (`ReplayNothing`, for a new checkpoint); appending
the replaced rows does not change what an earlier length undoes to (`ReplayAppend`,
for a command); and undoing to an inner and then to an outer length is undoing to
the outer one (`ReplayCut`, for a restore under open outer transactions). That the
outer lengths are the smaller ones, and that the stacks hold no token twice, is
the part of `StacksInLockstep` the last lemma needs.

For the masters the invariant has to speak of the open checkpoints too, because a
restore brings their rows back: in the current rows and in those of every open
checkpoint a generated clock has a master and is not its own ancestor (`MasterInv`).
Ancestors are defined as a least closed set, not by recursion, so that adding a
clock (`WriteKeepsMasters`) and removing a set closed under generation
(`RemoveKeepsMasters`) are set arguments. `ObjectInv` says in the same way that
the objects behind a checkpoint's clocks are alive and not younger than it.

### File replacement

`AtomicFileProofs`, for any set of processes, any number of writes and attempts, both
kinds of path, with and without I/O faults, and any kills and power losses:

| Theorem | Statement |
|---|---|
| `FileTargetIntact` | `Spec => []TargetIntact` |
| `FileConfirmedDurable` | `Spec => []ConfirmedDurable` |
| `FileNothingLeftBehind` | `Spec => []NothingLeftBehind` |

The invariant needs that a temporary belongs to the process in its name and is as
far as that process's label says (`TemporariesOwned`: before a rename it is
complete and synced), that the visible and the durable target are both whole and
ordered by version between what was confirmed and what was begun (`TargetSafe`),
and that every other temporary was abandoned (`LeftAccounted`).

### Mapped edits

`MappedEditProofs`, for any designs, workers, names and capacities, plans of any length
(those that contradict themselves and panic included), snapshots taken at any time, and
undo records dropped or presented in any order:

| Theorem | Statement |
|---|---|
| `EditRollbackRestores` | `Spec => RollbackRestores`, an action property |
| `EditUndoRecordsSound` | `Spec => []RollbackInv` (its inductive invariant; no run repeats it) |

Assumed is that a design lists its nets, cells and instances and connects its cells to its own
nets (`DesignsAssumption`; the builder refuses other identifiers), and that the bounds on plans are
numbers (`PlansAssumption`).

*Within an edit.* `Edit(st, base, names)` says of the netlist and the undo record, after any
number of operations, that every arena agrees with the netlist `base` the edit started from in each
old slot whose value is not in the record (`Kept`), that the record has the
old value of the others, that new slots lie behind the old ones, and that the arenas fit
each other (`ArenasFit`: a pin of a cell, a net of a connection exist). Each of the eight operations
keeps it (`ApplyOperationEdit`), which for the pin lists comes down to the writes of
`UnlinkPin` and `LinkPin`: each is preceded by the saving of the row it goes to, be it the pin's own,
a neighbour's or an end of the list. Nothing is assumed of the lists themselves, so
the proof does not need them to be well linked. That the slots
a plan names exist when their operation is reached follows from the validation
(`AcceptedPlansFit`), by induction over the way plans are grown and resolved.
Interning only appends names (`InternPlanExtends`). Writing the saved values
back and cutting arenas and name table to their old length is then the old netlist
(`AppliedRestores`), the counters and the revision being written last.

*Between edits.* `RollbackInv` says that an editable netlist is well formed and that the
outstanding records are sound for it (`UndoSound`): they belong to its generation, have
different revisions none of which is above the netlist's, a record of the netlist's
revision restores it, and, since a rollback may be followed by another, the netlist a
record brings back is one on which the record of the edit before it restores (`Chained`). Commits may drop any
link of the chain. Names for publication are given only when no record is
outstanding, without a new revision; repacking starts a new generation, so the
records of a published netlist are refused.
`Freeze` and the naming give well-formed netlists (`FreezeWellFormed`,
`AssignCellNamesWellFormed`, `AssignNetNamesWellFormed`).

### Timing views

`MappedTimingProofs`, for any number of owners, any numbers for the cell delays, the
resistances and the constraints of the model, any netlist and deltas, and a failure at
any stage of any owner:

| Theorem | Statement |
|---|---|
| `TimingViewsAligned` | `Spec => []ViewsAligned` |
| `TimingForwardExact` | `Spec => []ForwardExact` |
| `TimingSnapshotCurrent` | `Spec => []SnapshotCurrent` |

Assumed is that the slice lists each owner once (`OwnersAssumption`), that delays,
capacitances, slopes and resistances are numbers (`LibraryAssumption`), and `DesignAssumption`: the
instances are numbered, have their cell's pins, a delta is a map from instances, and
the design has no combinational loop, which the first build of a timing graph checks.
That the graph stays without loops is proved: it is what the cycle check of a region
edit is for.

*Alignment.* Of an owner this proof follows the instances of its graph and its two flags.
`Answers` says what an owner may do with a delta: take it in full, with
a journal of the instances it replaced, or refuse it at some stage and be on the old
instances again. `AppliedTo` says what the loop leaves: a prefix of the owners with the
edit and the rest without. The inductive invariant `IInv` adds to `ViewsAligned` that
an open transaction has an edit of every owner or of none, and that every journal
leads from the present netlist to the one the transaction began with (`EditExact`);
without it a rollback could put an owner on another netlist than the mapped one.
`MappedTiming` writes the two loops over the owners without a fold, which it may
because each iteration touches one owner.

*Exactness.* The inductive invariant `OwnersExact` says of every owner that it is `Exact`
and, inside a transaction, that its edit `Undoes`: the graph, rows, rules and snapshot
its journals lead back to are exact again. Exact is stated without a propagation:

* `GraphExact`: a typed graph without loops whose loads are the sums over its
  instances, and whose order, unless it is stale, is a topological order;
* `RowsExact`: the arrival row of every net whose driving gates have no resisted input
  net (`Free`) is what `PropagateSlots` computes from the rows, and the rules are those
  of the rows;
* the cached snapshot, unless a rollback reported a failure, is that of graph and rows.

The argument has six parts. (1) `FixUnique`: over a topological order two such
fixed points agree on every net that no resistance feeds, however far upstream
(`Shielded`), so exact rows are there those of a full propagation; of two different ones take
the first such net in the order on which they differ; its predecessors are shielded too
(`ShieldedFacts`). (2) `ArrivalsExact`: by induction over the
order, an incremental propagation started at any rows ends in the fixed point if
every free net whose row is not what its inputs give is a seed; and its journal has the
old value of every row that changed. A net that was not visited keeps its row because no
predecessor changed. (3) `SeedFacts`: a net outside
`InstanceRegionDirtyNets` has the drivers, launches and load it had; so the seeds of an edit
suffice for the free nets (`ForwardedExact`). For the others they do not: their rows also
depend on the loads of the nets before (section 4, finding 3). (4) `TopologicalFacts` and `RegionAcyclic`: the order that is
recomputed lists every net after its predecessors, since while a net is missing one is
ready; an edge an edit added that neither closes a loop upstream of it nor goes against the order
leaves the graph without loops, a stale order included. (5) `LoadSteps` and
`RegionLoadsExact`: taking the old pins off and putting the new ones on gives the loads
of the new instances. (6) `UndoExact`, `RowsRestored`, `RulesExact`: the journals lead
back, through each of the three ways in which a rollback treats the order: kept, cut to its old
length, or, when it was recomputed during the edit, filtered and marked stale.

The recursions of the model (order, loads, upstream nets, propagation) are recursive
functions, for which the library shows that they satisfy their equations; what they
compute is then shown by induction over positions, with the claim as a set of
positions (`PositionInduction` of `SequenceLemmas`).

### Only model-checked

* Liveness (`ScheduledCompletes` of the worklist and the three `Terminates`):
  fairness is out of the prover's reach.
* `ClosureCurrent`: it does not hold for every delta. The endpoints of an edit that moves a
  check pin without changing an edge are not indexed again (section 4), so a theorem
  would need an assumption on the deltas that the code does not make.
* `RequiredsCurrent`: it holds for views whose delays ignore the load only (section 4).
  Its invariant would have to say, for each set of deferred marks, which rows upstream of
  them may differ, and how the marks change when an edit is undone whose nets they name.
* `AlwaysPublishable`, `SnapshotsSound`, `AffectedExact` and `PublicationFaithful` of `MappedEdit`: they speak of the
  pins met when the links of a net are followed. Their invariant has to say that each
  list is a path through exactly the pins on its net, and a proof has to follow that path through
  every unlinking and linking of a plan. The proof about the rollback does without it.

## 6. Not modelled

Most of the repository's 190,000 lines are sequential transformations of large data:
elaboration and procedural lowering (`opto-hdl`, `opto-ir/proc`), word-level analyses,
mapping and optimisation heuristics (`opto-synth`), parsers and printers
(`opto-formats`, `opto-library`), equivalence checking (`opto-formal`) and the command
surface. They keep no state between calls that an interleaving or a failure could
leave half done. A model of such a pass is the pass over again, and its correctness
is an input-output relation the repository checks by formal equivalence. The modules
here cover the parts with a protocol, about one line in fifty.

Within the modelled parts, not modelled are: the object registry's arena and
hierarchy, switching activities (clock objects have none), `current_design` and the
session revision, the analysis caches a restore clears, archive contents, callbacks of
a keyed map that start another map on the same pool, and the runtime's metrics. Of
the timing: floating-point values, edges and delay types, clocks and exceptions,
derates, parasitics and wire-load models (which give a net a resistance that depends on its
fanout and on the sink; the properties and theorems about arrivals do not speak of nets
behind one), latches, the free lists of the closure, and a failure of
`rollback_instance_region` itself, which the code reports and cannot repair. Of the
netlist: pin names, ports beyond their nets, and checkpoint serialisation.

## 7. Plan

1. *Done*: worklist, publication with its refinement, ordered
   commit, keyed maps, constraint transactions, atomic files,
   mapped edits with publication, incremental timing and the transaction over both.
2. *Done*: proofs of the safety invariants of the runtime, the reference pass
   included, of the constraint
   transactions and the file replacement, of the alignment of the timing views and the
   exactness of their forward layers, of the rollback of mapped edits, and of
   the refinement of `AtomicPublication`. *Prove further*: `ConnectivityValid` of a
   netlist under edits, from which `AlwaysPublishable` follows; the required rows of views whose
   delays ignore the load.
3. *Model further*: synthesis publication against captured revisions; the analysis caches and their clearing; registry rows and kind lists
   under removal and rollback; nested maps on one pool.
