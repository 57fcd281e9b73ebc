----------------------- MODULE DependencyPublication ------------------------
(***************************************************************************)
(* ExecutionContext::publish_dependency_rows                               *)
(* (crates/opto-runtime/src/indexed.rs): a coordinator walks a worklist,   *)
(* snapshots the rows an item reads (prepare), lets a worker compute the   *)
(* rows the item owns (analyze) and publishes them when the answer         *)
(* arrives, in completion order.  Publishing journals the replaced values, *)
(* activates the dependents of a changed item and then releases them.  A   *)
(* failure of one item lets independent items continue and the failure of  *)
(* the least item is reported; any failure or cancellation restores every  *)
(* row.  With one worker the coordinator runs everything itself.           *)
(*                                                                         *)
(* Fault and cancellation choices are inputs; prepare and analyze are pure *)
(* callbacks that read the rows of the item and of its enabled             *)
(* dependencies.                                                           *)
(***************************************************************************)
EXTENDS DependencyWorklist, Sequences

CONSTANTS
    Rows,             \* the mutable row arena
    Values,           \* the values a row may hold
    OwnedRows,        \* DependencyPublicationPlan: the rows each item owns
    Analyze(_, _),    \* analyze: the owned rows computed from a snapshot
    InitialRows,      \* the row arenas a run may start from
    Activations,      \* the initial activation masks; Items stands for all()
    FaultMaps,        \* which callback of which item fails, and how
    Parallelisms      \* the values of ExecutionContext::parallelism

VARIABLES
    rows, initialRows, fault, parallelism,
    active,           \* DependencyActivation
    initialActive,
    journal,          \* DependencyEffects being recorded, one entry per item
    effects,          \* the caller's optional DependencyEffects
    published, changedItems, changedRows,
    ran, batches,     \* completed_batches of the context
    cancelFlag,       \* the context's cancellation flag
    cancelled,        \* the coordinator's latched view of it
    failure,          \* the retained stable failure
    phase,            \* where the coordinator stands
    workers,          \* worker_count
    batch,            \* claimed items not dispatched yet
    claimedAny,
    inFlight,         \* the coordinator's count of spawned, unanswered tasks
    tasks,            \* spawned analyses: items with their snapshots
    channel,          \* sync_channel(worker_count) of answers
    result            \* what the call returned

inputVars == <<initialRows, fault, parallelism, initialActive>>
commitVars == <<rows, active, journal, published, changedItems, changedRows>>
callVars == <<effects, batches, workers, result>>
poolVars == <<inFlight, tasks, channel>>
pubVars == <<vars, inputVars, commitVars, callVars, poolVars, ran, cancelFlag,
             cancelled, failure, phase, batch, claimedAny>>

FaultKinds == {"none", "prepare error", "prepare panic",
               "analyze error", "analyze panic", "foreign rows"}
Phases == {"building", "serial", "serial item", "top", "dispatch", "recv",
           "resolve", "done"}
NoFailure == [item |-> -1, kind |-> "none"]
NotReturned == [status |-> "Pending", item |-> -1]

\* sparse accepts rows of the arena with at most one owner each; identity is
\* the plan in which item and row coincide.
ValidOwnership(owned) ==
    /\ owned \in [Items -> SUBSET Rows]
    /\ \A i, j \in Items : i # j => owned[i] \cap owned[j] = {}

ASSUME ItemsAreNumbers == Items \subseteq Nat
ASSUME OwnershipAssumption == ValidOwnership(OwnedRows)
ASSUME InputsAssumption ==
    /\ InitialRows \subseteq [Rows -> Values]
    /\ Activations \subseteq SUBSET Items
    /\ FaultMaps \subseteq [Items -> FaultKinds]
    /\ Parallelisms \subseteq Nat \ {0}
\* analyze gives one value for every row of the item, whatever it read.
ASSUME AnalyzeAssumption ==
    \A item \in Items : \A read \in SUBSET Rows : \A input \in [read -> Values] :
        Analyze(item, input) \in [OwnedRows[item] -> Values]

-----------------------------------------------------------------------------
(***************************************************************************)
(* The callbacks.                                                          *)
(***************************************************************************)

ReadRows(item) == OwnedRows[item] \cup UNION {OwnedRows[d] : d \in EnabledDependencies(item)}

\* Mutant: the snapshot reads a row no dependency publishes.
SnapshotEverything(item) == [r \in Rows |-> rows[r]]

\* prepare copies what it reads on the coordinator.
Snapshot(item) == [r \in ReadRows(item) |-> rows[r]]

PrepareFails(item) == fault[item] \in {"prepare error", "prepare panic"}
FailureKind(item) ==
    IF fault[item] \in {"prepare panic", "analyze panic"} THEN "Panicked" ELSE "Failed"

\* What a worker sends back.
Answer(item, input) ==
    [item |-> item,
     ok |-> fault[item] \notin {"analyze error", "analyze panic"},
     rows |-> Analyze(item, input)]

\* owns_publication: exactly the sealed rows of the item.
OwnsPublication(item) == fault[item] # "foreign rows"

-----------------------------------------------------------------------------
(***************************************************************************)
(* Publishing.                                                             *)
(***************************************************************************)

\* Mutant: the failure seen last is kept.
RetainLastFailure(item) ==
    failure' = [item |-> item, kind |-> FailureKind(item)]

\* retain_stable_failure: the failure of the least item survives.
RetainStableFailure(item) ==
    failure' = IF failure = NoFailure \/ item < failure.item
               THEN [item |-> item, kind |-> FailureKind(item)]
               ELSE failure

\* Mutant: dependents are not activated by a change.
PublishRowsWithoutActivation(item, output) ==
    LET owned == OwnedRows[item]
        changed == {r \in owned : rows[r] # output[r]}
    IN  /\ rows' = [r \in Rows |-> IF r \in owned THEN output[r] ELSE rows[r]]
        /\ journal' = Append(journal, [item |-> item, previous |-> [r \in owned |-> rows[r]]])
        /\ published' = published \cup {item}
        /\ changedRows' = changedRows \cup changed
        /\ changedItems' = IF changed = {} THEN changedItems ELSE changedItems \cup {item}
        /\ UNCHANGED active

\* Mutant: only changed rows are journalled, with their new value.
PublishRowsJournalsNew(item, output) ==
    LET owned == OwnedRows[item]
        changed == {r \in owned : rows[r] # output[r]}
    IN  /\ rows' = [r \in Rows |-> IF r \in owned THEN output[r] ELSE rows[r]]
        /\ journal' = Append(journal, [item |-> item, previous |-> [r \in owned |-> output[r]]])
        /\ published' = published \cup {item}
        /\ changedRows' = changedRows \cup changed
        /\ changedItems' = IF changed = {} THEN changedItems ELSE changedItems \cup {item}
        /\ active' = IF changed = {} THEN active ELSE active \cup EnabledDependents(item)

\* PublicationCommit::publish up to the release of the dependents.
PublishRows(item, output) ==
    LET owned == OwnedRows[item]
        changed == {r \in owned : rows[r] # output[r]}
    IN  /\ rows' = [r \in Rows |-> IF r \in owned THEN output[r] ELSE rows[r]]
        /\ journal' = Append(journal, [item |-> item, previous |-> [r \in owned |-> rows[r]]])
        /\ published' = published \cup {item}
        /\ changedRows' = changedRows \cup changed
        /\ changedItems' = IF changed = {} THEN changedItems ELSE changedItems \cup {item}
        /\ active' = IF changed = {} THEN active ELSE active \cup EnabledDependents(item)

\* PublicationCoordinator::publish: a publication of foreign rows is a failure
\* of its item, found before any row is touched; the item stays claimed.
Publish(item, output) ==
    IF OwnsPublication(item)
    THEN PublishRows(item, output) /\ Finish(item) /\ UNCHANGED failure
    ELSE RetainStableFailure(item) /\ UNCHANGED <<vars, commitVars>>

\* Mutant: an entry wins over an earlier one of the same row, and unchanged
\* rows are forgotten.
RollbackLast(entries) ==
    IF entries = <<>> THEN rows
    ELSE LET last == entries[Len(entries)].previous
         IN  [r \in Rows |-> IF r \in DOMAIN last THEN last[r] ELSE rows[r]]

\* DependencyEffects::rollback: replaying the entries backwards leaves each
\* row with the value its earliest entry recorded.
Rollback(entries) ==
    [r \in Rows |->
        LET at == {k \in 1..Len(entries) : r \in DOMAIN entries[k].previous}
        IN  IF at = {} THEN rows[r]
            ELSE entries[CHOOSE k \in at : \A l \in at : k <= l].previous[r]]

\* The error return: rows restored, journal consumed, caller's effects left
\* as Start cleared them.
Abort(status, item) ==
    /\ rows' = Rollback(journal)
    /\ journal' = <<>>
    /\ result' = [status |-> status, item |-> item]
    /\ phase' = "done"
    /\ UNCHANGED <<active, published, changedItems, changedRows, effects, batches, workers>>

\* The success return: the journal, put in (item, row) order, becomes the
\* caller's effects; only a run that executed something is a batch.
Succeed ==
    /\ effects' = {journal[k] : k \in 1..Len(journal)}
    /\ batches' = IF ran THEN batches + 1 ELSE batches
    /\ result' = [status |-> "Ok", item |-> -1]
    /\ phase' = "done"
    /\ UNCHANGED <<commitVars, workers>>

-----------------------------------------------------------------------------
(***************************************************************************)
(* The call.                                                               *)
(***************************************************************************)

PubInit ==
    /\ Init
    /\ initialRows \in InitialRows /\ rows = initialRows
    /\ initialActive \in Activations /\ active = initialActive
    /\ fault \in FaultMaps
    /\ parallelism \in Parallelisms
    /\ journal = <<>> /\ effects = {"entries of an earlier run"}
    /\ published = {} /\ changedItems = {} /\ changedRows = {}
    /\ ran = FALSE /\ batches = 0
    /\ cancelFlag = FALSE /\ cancelled = FALSE
    /\ failure = NoFailure
    /\ phase = "building"
    /\ workers = 0 /\ batch = {} /\ claimedAny = FALSE
    /\ inFlight = 0 /\ tasks = {} /\ channel = <<>>
    /\ result = NotReturned

\* worklist_masked schedules the seeds before the call.
ScheduleSeed(item) ==
    /\ phase = "building"
    /\ state[item] = "Absent"
    /\ Schedule(item)
    /\ UNCHANGED <<inputVars, commitVars, callVars, poolVars, ran, cancelFlag,
                   cancelled, failure, phase, batch, claimedAny>>

\* dependency_execution_plan.
WorkerCount == IF pending <= parallelism THEN pending ELSE parallelism

\* The prologue of publish_dependency_rows.
Start ==
    /\ phase = "building"
    /\ effects' = {}
    /\ workers' = WorkerCount
    /\ IF cancelFlag
       THEN /\ result' = [status |-> "Cancelled", item |-> -1]
            /\ phase' = "done"
       ELSE /\ phase' = IF WorkerCount <= 1 THEN "serial" ELSE "top"
            /\ UNCHANGED result
    /\ UNCHANGED <<vars, inputVars, commitVars, poolVars, batches, ran, cancelFlag,
                   cancelled, failure, batch, claimedAny>>

\* ExecutionContext::cancel, by anyone at any time.
Cancel ==
    /\ ~cancelFlag
    /\ cancelFlag' = TRUE
    /\ UNCHANGED <<vars, inputVars, commitVars, callVars, poolVars, ran, cancelled,
                   failure, phase, batch, claimedAny>>

\* One item is skipped because nothing it depends on changed.
SkipInactive(item) ==
    /\ item \in batch /\ item \notin active
    /\ batch' = batch \ {item}
    /\ Finish(item)
    /\ UNCHANGED <<inputVars, commitVars, callVars, poolVars, ran, cancelFlag,
                   cancelled, failure, claimedAny>>

-----------------------------------------------------------------------------
(***************************************************************************)
(* publish_dependency_rows_serial.                                         *)
(***************************************************************************)

SerialClaim ==
    /\ phase = "serial"
    /\ \/ /\ Claim(1)
          /\ batch' = ready \ ready'
          /\ phase' = "serial item"
       \/ /\ EmptyClaim(1)
          /\ phase' = "resolve"
          /\ UNCHANGED batch
    /\ UNCHANGED <<inputVars, commitVars, callVars, poolVars, ran, cancelFlag,
                   cancelled, failure, claimedAny>>

SerialSkip(item) ==
    /\ phase = "serial item"
    /\ SkipInactive(item)
    /\ phase' = "serial"

\* Cancellation returns at once, whatever failure is retained.
SerialCancelled(item) ==
    /\ phase = "serial item" /\ item \in batch \cap active
    /\ cancelFlag
    /\ ran' = TRUE
    /\ batch' = {}
    /\ Abort("Cancelled", -1)
    /\ UNCHANGED <<vars, inputVars, poolVars, cancelFlag, cancelled, failure, claimedAny>>

SerialRun(item) ==
    /\ phase = "serial item" /\ item \in batch \cap active
    /\ ~cancelFlag
    /\ ran' = TRUE
    /\ batch' = {}
    /\ phase' = "serial"
    /\ LET answer == Answer(item, Snapshot(item))
       IN  IF PrepareFails(item) \/ ~answer.ok
           THEN RetainStableFailure(item) /\ UNCHANGED <<vars, commitVars>>
           ELSE Publish(item, answer.rows)
    /\ UNCHANGED <<inputVars, callVars, poolVars, cancelFlag, cancelled, claimedAny>>

-----------------------------------------------------------------------------
(***************************************************************************)
(* publish_dependency_rows_parallel.                                       *)
(***************************************************************************)

\* Mutant: tasks already in flight are not counted.
AvailableIgnoringInFlight == workers

\* How many more tasks the pool has room for.
Available == workers - inFlight

\* The top of the coordinator's loop: claim as much as the pool has room for.
LoopTop ==
    LET stop == cancelled \/ cancelFlag
        available == Available
    IN  /\ phase = "top"
        /\ phase' = "dispatch"
        /\ cancelled' = stop
        /\ \/ /\ ~stop /\ available # 0
              /\ Claim(available)
              /\ batch' = ready \ ready'
              /\ claimedAny' = TRUE
           \/ /\ ~stop /\ available # 0
              /\ EmptyClaim(available)
              /\ batch' = {}
              /\ claimedAny' = FALSE
           \/ /\ stop \/ available = 0
              /\ batch' = {}
              /\ claimedAny' = FALSE
              /\ UNCHANGED vars
        /\ UNCHANGED <<inputVars, commitVars, callVars, poolVars, ran, cancelFlag, failure>>

\* Claimed items are dispatched in claim order.
NextOfBatch(item) ==
    item \in batch /\ \A other \in batch : ReadyKey(item) <= ReadyKey(other)

DispatchSkip(item) ==
    /\ phase = "dispatch" /\ NextOfBatch(item)
    /\ SkipInactive(item)
    /\ UNCHANGED phase

DispatchFails(item) ==
    /\ phase = "dispatch" /\ NextOfBatch(item) /\ item \in active
    /\ PrepareFails(item)
    /\ ran' = TRUE
    /\ batch' = batch \ {item}
    /\ RetainStableFailure(item)
    /\ UNCHANGED <<vars, inputVars, commitVars, callVars, poolVars, cancelFlag,
                   cancelled, phase, claimedAny>>

Spawn(item) ==
    /\ phase = "dispatch" /\ NextOfBatch(item) /\ item \in active
    /\ ~PrepareFails(item)
    /\ ran' = TRUE
    /\ batch' = batch \ {item}
    /\ tasks' = tasks \cup {[item |-> item, input |-> Snapshot(item)]}
    /\ inFlight' = inFlight + 1
    /\ UNCHANGED <<vars, inputVars, commitVars, callVars, channel, cancelFlag,
                   cancelled, failure, phase, claimedAny>>

\* Mutant: an empty pool is taken for one that will be given work.
AfterDispatchNeverLeaves == IF inFlight # 0 THEN "recv" ELSE "top"

\* Wait for an answer, or claim again when every claimed item was skipped or
\* failed, or leave the loop.
AfterDispatch ==
    IF inFlight # 0 THEN "recv" ELSE IF claimedAny THEN "top" ELSE "resolve"

EndDispatch ==
    /\ phase = "dispatch" /\ batch = {}
    /\ phase' = AfterDispatch
    /\ UNCHANGED <<vars, inputVars, commitVars, callVars, poolVars, ran, cancelFlag,
                   cancelled, failure, batch, claimedAny>>

\* A pool thread runs one spawned analysis and sends its answer; a full
\* channel would block it.
Work(task) ==
    /\ task \in tasks
    /\ Len(channel) < workers
    /\ tasks' = tasks \ {task}
    /\ channel' = Append(channel, Answer(task.item, task.input))
    /\ UNCHANGED <<vars, inputVars, commitVars, callVars, inFlight, ran, cancelFlag,
                   cancelled, failure, phase, batch, claimedAny>>

\* One answer: failures are retained, and an answer that arrives after
\* cancellation is dropped.
Settle(answer, stop) ==
    IF ~answer.ok
    THEN RetainStableFailure(answer.item) /\ UNCHANGED <<vars, commitVars>>
    ELSE IF stop THEN UNCHANGED <<vars, commitVars, failure>>
    ELSE Publish(answer.item, answer.rows)

Receive ==
    /\ phase = "recv" /\ channel # <<>>
    /\ channel' = Tail(channel)
    /\ inFlight' = inFlight - 1
    /\ cancelled' = (cancelled \/ cancelFlag)
    /\ Settle(Head(channel), cancelled')
    /\ phase' = "top"
    /\ UNCHANGED <<inputVars, callVars, tasks, ran, cancelFlag, batch, claimedAny>>

\* resolve_dependency_failure and the returns of publish_dependency_rows: a
\* retained failure comes before cancellation.
Resolve ==
    /\ phase = "resolve"
    /\ IF failure # NoFailure THEN Abort(failure.kind, failure.item)
       ELSE IF cancelled THEN Abort("Cancelled", -1)
       ELSE Succeed
    /\ UNCHANGED <<vars, inputVars, poolVars, ran, cancelFlag, cancelled, failure,
                   batch, claimedAny>>

Returned ==
    /\ phase = "done"
    /\ UNCHANGED pubVars

Coordinator ==
    \/ SerialClaim
    \/ \E item \in Items : SerialSkip(item) \/ SerialCancelled(item) \/ SerialRun(item)
    \/ LoopTop
    \/ \E item \in Items : DispatchSkip(item) \/ DispatchFails(item) \/ Spawn(item)
    \/ EndDispatch
    \/ Receive
    \/ Resolve

PubNext ==
    \/ \E item \in Items : ScheduleSeed(item)
    \/ Start
    \/ Cancel
    \/ Coordinator
    \/ \E task \in tasks : Work(task)
    \/ Returned

PubSpec == PubInit /\ [][PubNext]_pubVars

\* The coordinator thread runs, and pool threads run what is spawned.
FairPubSpec ==
    /\ PubSpec
    /\ WF_pubVars(Coordinator)
    /\ WF_pubVars(\E task \in tasks : Work(task))

-----------------------------------------------------------------------------
(***************************************************************************)
(* The reference: one pass over the items in key order, without workers,   *)
(* channel, batches or cancellation.                                       *)
(***************************************************************************)

ItemAt(n) ==
    CHOOSE i \in Items : Cardinality({j \in Items : ReadyKey(j) < ReadyKey(i)}) = n

\* A scheduled item is executed unless a scheduled enabled dependency failed
\* or was itself never reached.
Visit(before, item) ==
    LET held == \E d \in EnabledDependencies(item) : d \in before.failed \cup before.blocked
        input == [r \in ReadRows(item) |-> before.rows[r]]
        output == Analyze(item, input)
        changed == {r \in OwnedRows[item] : output[r] # before.rows[r]}
    IN  IF state[item] = "Absent" THEN before
        ELSE IF held THEN [before EXCEPT !.blocked = @ \cup {item}]
        ELSE IF item \notin before.active THEN before
        ELSE IF fault[item] # "none" THEN [before EXCEPT !.failed = @ \cup {item}]
        ELSE [before EXCEPT
                !.rows = [r \in Rows |-> IF r \in OwnedRows[item] THEN output[r] ELSE @[r]],
                !.published = @ \cup {item},
                !.changedRows = @ \cup changed,
                !.active = IF changed = {} THEN @ ELSE @ \cup EnabledDependents(item)]

Reference ==
    LET pass[n \in 0..Cardinality(Items)] ==
            IF n = 0
            THEN [rows |-> initialRows, active |-> initialActive, failed |-> {},
                  blocked |-> {}, published |-> {}, changedRows |-> {}]
            ELSE Visit(pass[n - 1], ItemAt(n - 1))
    IN  pass[Cardinality(Items)]

-----------------------------------------------------------------------------
(***************************************************************************)
(* Properties.                                                             *)
(***************************************************************************)

\* The snapshot a worker computes from is never stale: no row it read is
\* replaced between prepare and the publication of its answer.
SnapshotsCurrent ==
    /\ \A t \in tasks : t.input = Snapshot(t.item)
    /\ \A k \in DOMAIN channel :
          channel[k].rows = Analyze(channel[k].item, Snapshot(channel[k].item))

\* Every claimed item is in exactly one place: waiting for dispatch, with a
\* worker, in the channel, or failed or dropped.  The coordinator's counter
\* counts the two middle ones and never exceeds the pool, so a worker never
\* blocks on the channel and a waiting coordinator always has an answer coming.
\* A call returns with no worker left behind.
ClaimsAccounted ==
    LET sent == {channel[k].item : k \in DOMAIN channel}
        analyzed == {t.item : t \in tasks}
    IN  /\ inFlight = Cardinality(tasks) + Len(channel)
        /\ inFlight = Cardinality(analyzed \cup sent)
        /\ inFlight <= workers
        /\ \A i \in batch \cup analyzed \cup sent : state[i] = "Running"
        /\ batch \cap (analyzed \cup sent) = {}
        /\ phase = "recv" => inFlight # 0
        /\ phase = "done" => tasks = {} /\ channel = <<>> /\ batch = {}

\* Worker count and completion order cannot change the result: a successful
\* call leaves the rows, and reports the items and rows, of the reference pass.
\* Every scheduled item is then complete, although the loop stops on a claim
\* that returned nothing. Without cancellation the reported failure is that of
\* the least item the reference pass fails on, whichever item failed first.
ResultMatchesReference ==
    /\ result.status = "Ok" =>
        /\ \A i \in Items : state[i] \in {"Absent", "Complete"}
        /\ Reference.failed = {}
        /\ rows = Reference.rows
        /\ published = Reference.published
        /\ changedRows = Reference.changedRows
        /\ changedItems = {i \in Items : OwnedRows[i] \cap Reference.changedRows # {}}
    /\ (result.status \in {"Failed", "Panicked"} /\ ~cancelFlag) =>
        /\ result.item \in Reference.failed
        /\ \A i \in Reference.failed : result.item <= i
        /\ result.status = FailureKind(result.item)

\* The effects handed to the caller undo the whole call, and an unsuccessful
\* call hands out none and counts no batch.
EffectsUndo ==
    /\ result.status = "Ok" =>
          \A r \in Rows :
              IF \E e \in effects : r \in DOMAIN e.previous
              THEN \A e \in effects : r \in DOMAIN e.previous => e.previous[r] = initialRows[r]
              ELSE rows[r] = initialRows[r]
    /\ result.status \in {"Failed", "Panicked", "Cancelled"} => effects = {} /\ batches = 0

\* The rows a successful call may leave: an executed item's rows are what
\* analyze gives on the final rows of its dependencies and its own old rows;
\* the rows of every other item are untouched.  An item is executed when it
\* was active from the start or a dependency's rows changed.
IsOutcome(final) ==
    LET changed(i) == \E r \in OwnedRows[i] : final[r] # initialRows[r]
        executes(i) == /\ state[i] # "Absent"
                       /\ i \in initialActive \/ \E d \in EnabledDependencies(i) : changed(d)
        input(i) == [r \in ReadRows(i) |->
                        IF r \in OwnedRows[i] THEN initialRows[r] ELSE final[r]]
    IN  \A r \in Rows :
            final[r] = IF \E i \in Items : r \in OwnedRows[i] /\ executes(i)
                       THEN Analyze(CHOOSE i \in Items : r \in OwnedRows[i],
                                    input(CHOOSE i \in Items : r \in OwnedRows[i]))[r]
                       ELSE initialRows[r]

\* The caller sees the arena again only when the call returns.
Atomic == INSTANCE AtomicPublication WITH
    arena <- IF phase = "done" THEN rows ELSE initialRows,
    status <- result.status,
    outcomes <- {final \in [Rows -> Values] : IsOutcome(final)},
    Unsuccessful <- {"Failed", "Panicked", "Cancelled"}

\* The call is atomic for its caller: one step to consistent rows or one step
\* to an error with the rows untouched.
ImplementsAtomic == Atomic!AtomicSpec

\* A started call returns, whatever fails and whenever it is cancelled.
Terminates == phase # "building" ~> phase = "done"

=============================================================================
