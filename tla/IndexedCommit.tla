---------------------------- MODULE IndexedCommit ---------------------------
(***************************************************************************)
(* ExecutionContext::commit_indexed (crates/opto-runtime/src/indexed.rs):  *)
(* items 0..ItemCount-1 are analyzed by a bounded number of workers and    *)
(* committed on the calling thread in ascending order.  Answers arrive in  *)
(* any order and wait in a map until every smaller item is committed; each *)
(* commit launches one more item.  The first failure in item order ends    *)
(* the call; workers still running are waited for, their answers dropped.  *)
(***************************************************************************)
EXTENDS Integers, Sequences, FiniteSets

CONSTANTS
    ItemCount,              \* item_count
    Parallelisms,           \* the parallelism of the handles in use
    MinParallelItems,       \* MIN_PARALLEL_INDEXED_ITEMS (64)
    MinItemsPerWorker,      \* MIN_INDEXED_ITEMS_PER_WORKER (32)
    Faults                  \* the fault maps: what analyze and commit do per item

Items == 0..ItemCount - 1
FaultKinds == {"none", "analyze error", "analyze panic", "commit error"}

ASSUME CountsAssumption ==
    /\ ItemCount \in Nat /\ Parallelisms \subseteq Nat \ {0}
    /\ MinParallelItems \in Nat \ {0} /\ MinItemsPerWorker \in Nat \ {0}
ASSUME FaultsAssumption == Faults \subseteq [Items -> FaultKinds]

VARIABLES
    fault,
    parallelism,    \* parallelism of the handle
    cancelFlag,     \* the context's cancellation flag
    phase,          \* "entry", "serial", "recv", "commit", "joining", "done"
    nextLaunch,     \* next_launch
    nextCommit,     \* next_commit
    analyzing,      \* spawned items whose worker has not sent yet
    channel,        \* sync_channel(worker_count)
    receiving,      \* the receiver is alive: the scope's closure has not returned
    waiting,        \* the pending BTreeMap: received, not committed
    committed,      \* what the commit callback was given, in order
    batches,        \* completed_batches
    result          \* what the call returns

vars == <<fault, parallelism, cancelFlag, phase, nextLaunch, nextCommit, analyzing, channel,
          receiving, waiting, committed, batches, result>>

\* indexed_worker_count.
DivCeil(a, b) == (a + b - 1) \div b
IndexedWorkerCount(count, threads) ==
    IF count = 0 THEN 0
    ELSE IF threads > 1 /\ count >= MinParallelItems
    THEN IF threads < DivCeil(count, MinItemsPerWorker)
         THEN threads ELSE DivCeil(count, MinItemsPerWorker)
    ELSE 1

Workers == IndexedWorkerCount(ItemCount, parallelism)

\* analyze(index) is pure: its value is named by its item.
Analysis(item) == [item |-> item, outcome |-> fault[item]]

Returns(status, item) == result' = [status |-> status, item |-> item]

Init ==
    /\ fault \in Faults
    /\ parallelism \in Parallelisms
    /\ cancelFlag = FALSE
    /\ phase = "entry"
    /\ nextLaunch = 0 /\ nextCommit = 0
    /\ analyzing = {} /\ channel = <<>> /\ receiving = FALSE /\ waiting = {}
    /\ committed = <<>>
    /\ batches = 0
    /\ result = [status |-> "Pending", item |-> -1]

\* Anyone may cancel the shared context.
Cancel ==
    /\ ~cancelFlag
    /\ cancelFlag' = TRUE
    /\ UNCHANGED <<fault, parallelism, phase, nextLaunch, nextCommit, analyzing, channel,
                   receiving, waiting, committed, batches, result>>

\* The entry check, the choice of path, and the first launches: the spawns
\* need no answer, so they are one step.
Enter ==
    /\ phase = "entry"
    /\ \/ /\ cancelFlag
          /\ Returns("Cancelled", -1)
          /\ phase' = "done"
          /\ UNCHANGED <<nextLaunch, analyzing, receiving>>
       \/ /\ ~cancelFlag /\ Workers <= 1
          /\ phase' = "serial"
          /\ UNCHANGED <<nextLaunch, analyzing, receiving, result>>
       \/ /\ ~cancelFlag /\ Workers > 1
          /\ analyzing' = 0..Workers - 1
          /\ nextLaunch' = Workers
          /\ receiving' = TRUE
          /\ phase' = "recv"
          /\ UNCHANGED result
    /\ UNCHANGED <<fault, parallelism, cancelFlag, nextCommit, channel, waiting, committed, batches>>

\* The successful end of both paths.
Finished ==
    /\ Returns("Ok", -1)
    /\ batches' = IF ItemCount # 0 THEN batches + 1 ELSE batches

FailureStatus(item) ==
    CASE fault[item] \in {"analyze error", "commit error"} -> "Failed"
      [] fault[item] = "analyze panic" -> "Panicked"
      [] OTHER -> "none"

-----------------------------------------------------------------------------
(***************************************************************************)
(* The serial path.                                                        *)
(***************************************************************************)

SerialItem ==
    /\ phase = "serial" /\ nextCommit < ItemCount
    /\ \/ /\ cancelFlag
          /\ Returns("Cancelled", -1)
          /\ phase' = "done"
          /\ UNCHANGED <<committed, nextCommit>>
       \/ /\ ~cancelFlag /\ FailureStatus(nextCommit) # "none"
          /\ Returns(FailureStatus(nextCommit), nextCommit)
          /\ phase' = "done"
          /\ UNCHANGED <<committed, nextCommit>>
       \/ /\ ~cancelFlag /\ FailureStatus(nextCommit) = "none"
          /\ committed' = Append(committed, Analysis(nextCommit).item)
          /\ nextCommit' = nextCommit + 1
          /\ UNCHANGED <<phase, result>>
    /\ UNCHANGED <<fault, parallelism, cancelFlag, nextLaunch, analyzing, channel, receiving,
                   waiting, batches>>

SerialEnd ==
    /\ phase = "serial" /\ nextCommit = ItemCount
    /\ Finished
    /\ phase' = "done"
    /\ UNCHANGED <<fault, parallelism, cancelFlag, nextLaunch, nextCommit, analyzing, channel,
                   receiving, waiting, committed>>

-----------------------------------------------------------------------------
(***************************************************************************)
(* The parallel path.                                                      *)
(***************************************************************************)

\* A worker sends its answer.  The channel holds one answer per worker; the
\* send of a disconnected channel returns at once and is ignored.
Send(item) ==
    /\ item \in analyzing
    /\ receiving => Len(channel) < Workers
    /\ analyzing' = analyzing \ {item}
    /\ channel' = IF receiving THEN Append(channel, item) ELSE channel
    /\ UNCHANGED <<fault, parallelism, cancelFlag, phase, nextLaunch, nextCommit, receiving,
                   waiting, committed, batches, result>>

Receive ==
    /\ phase = "recv" /\ nextCommit < ItemCount /\ channel # <<>>
    /\ waiting' = waiting \cup {Head(channel)}
    /\ channel' = Tail(channel)
    /\ phase' = "commit"
    /\ UNCHANGED <<fault, parallelism, cancelFlag, nextLaunch, nextCommit, analyzing, receiving,
                   committed, batches, result>>

\* Mutant: whatever has arrived is committed, smallest first.
NextReadyArrived ==
    IF waiting = {} THEN nextCommit
    ELSE CHOOSE i \in waiting : \A j \in waiting : i <= j

\* The only item that may be committed next.
NextReady == nextCommit

\* Mutant: two launches per commit.
LaunchTwo ==
    IF nextLaunch < ItemCount
    THEN /\ analyzing' = analyzing \cup {i \in Items : i \in nextLaunch..nextLaunch + 1}
         /\ nextLaunch' = nextLaunch + 2
    ELSE UNCHANGED <<analyzing, nextLaunch>>

\* Mutant: the counter moves before the item is taken.
LaunchSkips ==
    IF nextLaunch + 1 < ItemCount
    THEN /\ analyzing' = analyzing \cup {nextLaunch + 1}
         /\ nextLaunch' = nextLaunch + 1
    ELSE UNCHANGED <<analyzing, nextLaunch>>

\* One commit makes room for one launch.
LaunchNext ==
    IF nextLaunch < ItemCount
    THEN /\ analyzing' = analyzing \cup {nextLaunch}
         /\ nextLaunch' = nextLaunch + 1
    ELSE UNCHANGED <<analyzing, nextLaunch>>

CommitReady ==
    /\ phase = "commit" /\ NextReady \in waiting
    /\ waiting' = waiting \ {NextReady}
    /\ \/ /\ FailureStatus(NextReady) # "none"
          /\ Returns(FailureStatus(NextReady), NextReady)
          /\ phase' = "joining"
          /\ receiving' = FALSE
          /\ UNCHANGED <<committed, nextCommit, analyzing, nextLaunch>>
       \/ /\ FailureStatus(NextReady) = "none"
          /\ committed' = Append(committed, Analysis(NextReady).item)
          /\ nextCommit' = nextCommit + 1
          /\ LaunchNext
          /\ UNCHANGED <<phase, receiving, result>>
    /\ UNCHANGED <<fault, parallelism, cancelFlag, channel, batches>>

\* Mutant: the loop polls the map instead of receiving.
GapSpins ==
    /\ phase = "commit" /\ NextReady \notin waiting
    /\ IF nextCommit < ItemCount
       THEN UNCHANGED <<phase, receiving>>
       ELSE phase' = "joining" /\ receiving' = FALSE
    /\ UNCHANGED <<fault, parallelism, cancelFlag, nextLaunch, nextCommit, analyzing, channel,
                   waiting, committed, batches, result>>

\* The inner loop found a gap: wait for the next answer, or leave the scope.
Gap ==
    /\ phase = "commit" /\ NextReady \notin waiting
    /\ IF nextCommit < ItemCount
       THEN phase' = "recv" /\ UNCHANGED receiving
       ELSE phase' = "joining" /\ receiving' = FALSE
    /\ UNCHANGED <<fault, parallelism, cancelFlag, nextLaunch, nextCommit, analyzing, channel,
                   waiting, committed, batches, result>>

\* in_place_scope returns when every spawned worker has.
Joined == analyzing = {}

Join ==
    /\ phase = "joining" /\ Joined
    /\ IF result.status = "Pending" THEN Finished ELSE UNCHANGED <<result, batches>>
    /\ phase' = "done"
    /\ UNCHANGED <<fault, parallelism, cancelFlag, nextLaunch, nextCommit, analyzing, channel,
                   receiving, waiting, committed>>

Returned == phase = "done" /\ UNCHANGED vars

Coordinator ==
    Enter \/ SerialItem \/ SerialEnd \/ Receive \/ CommitReady \/ Gap \/ Join

Next ==
    \/ Cancel
    \/ Enter
    \/ SerialItem
    \/ SerialEnd
    \/ \E item \in Items : Send(item)
    \/ Receive
    \/ CommitReady
    \/ Gap
    \/ Join
    \/ Returned

Spec == Init /\ [][Next]_vars

\* The caller's thread runs and pool threads run what is spawned.
FairSpec ==
    /\ Spec
    /\ WF_vars(Coordinator)
    /\ \A item \in Items : WF_vars(Send(item))

-----------------------------------------------------------------------------
(***************************************************************************)
(* Properties.                                                             *)
(***************************************************************************)

\* Every launched item is at one place: with its worker, in the channel,
\* waiting for a smaller item, or committed; and at most one uncommitted item
\* per worker is in flight, so no worker ever blocks on the channel.
InFlightBounded ==
    receiving =>
        /\ nextLaunch - nextCommit =
               Cardinality(analyzing) + Len(channel) + Cardinality(waiting)
        /\ nextLaunch - nextCommit <= Workers
        /\ nextCommit < ItemCount => nextCommit < nextLaunch

\* The coordinator never waits for an answer that cannot come: an item it
\* needs is with a worker or in the channel.
AnswerIsComing ==
    (phase = "recv") =>
        nextCommit \in analyzing \/ \E k \in DOMAIN channel : channel[k] = nextCommit

\* The items below the first one that fails.
FirstFailure == {i \in Items : FailureStatus(i) # "none" /\
                     \A j \in Items : j < i => FailureStatus(j) = "none"}

\* Worker count and completion order cannot change what is committed: the
\* commits are the ascending prefix a serial loop makes, and without
\* cancellation the call reports the first failing item, with everything
\* before it and nothing after it committed.
CommitsSerialPrefix ==
    /\ committed = [k \in 1..nextCommit |-> k - 1]
    /\ \A i \in FirstFailure : nextCommit <= i
    /\ result.status = "Ok" => nextCommit = ItemCount /\ FirstFailure = {}
    /\ result.status \in {"Failed", "Panicked"} =>
           /\ result.item \in FirstFailure
           /\ nextCommit = result.item
           /\ result.status = FailureStatus(result.item)

\* Every call returns.
Terminates == <>(phase = "done")

=============================================================================
