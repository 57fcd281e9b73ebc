----------------------------- MODULE OrderedMap -----------------------------
(***************************************************************************)
(* The keyed schedulers of ExecutionContext                                *)
(* (crates/opto-runtime/src/context.rs): map_ordered, map_ordered_nested   *)
(* and map_ordered_composite.  Callbacks finish in any order; values and   *)
(* errors are selected in task-key order.  The composite scheduler admits  *)
(* at most the square root of the worker count at a time, heaviest first,  *)
(* and refills a slot as soon as one answer arrives.                       *)
(***************************************************************************)
EXTENDS Integers, Sequences, FiniteSets

CONSTANTS
    Slots,          \* positions of the caller's task vector
    Keys,           \* TaskKey values, as numbers in their order
    KeyLists,       \* the task vectors: the key of every slot
    WorkMaps,       \* estimated_work per key
    Faults,         \* what the callback of each key does
    Parallelisms    \* parallelism of the handles in use

Outcomes == {"ok", "error", "panic"}

ASSUME SlotsAssumption == IsFiniteSet(Slots) /\ Keys \subseteq Nat
ASSUME ListsAssumption ==
    /\ KeyLists \subseteq [Slots -> Keys]
    /\ WorkMaps \subseteq [Keys -> Nat]
    /\ Faults \subseteq [Keys -> Outcomes]
    /\ Parallelisms \subseteq Nat \ {0}

VARIABLES
    keyOf, work, fault, parallelism,   \* the call's inputs
    composite,      \* map_ordered_composite, or one of the plain schedulers
    cancelFlag,
    phase,          \* "entry", "serial", "launch", "recv", "par", "done"
    launched,       \* tasks spawned or started
    running,        \* callbacks in progress
    channel,        \* answers on their way to the coordinator
    results,        \* answers by key
    returned,       \* callbacks that returned (history)
    result          \* what the call returns

inputs == <<keyOf, work, fault, parallelism, composite>>
vars == <<inputs, cancelFlag, phase, launched, running, channel, results,
          returned, result>>

Tasks == {keyOf[s] : s \in Slots}

HasDuplicate == Cardinality(Tasks) # Cardinality(Slots)

\* usize::isqrt.
Isqrt(n) == CHOOSE k \in 0..n : k * k <= n /\ n < (k + 1) * (k + 1)

Least(a, b) == IF a <= b THEN a ELSE b

\* Mutant: every worker admits a composite task.
OuterParallelismUnbounded == Least(parallelism, Cardinality(Tasks))

OuterParallelism ==
    LET root == Isqrt(parallelism)
    IN  Least(IF root = 0 THEN 1 ELSE root, Cardinality(Tasks))

\* Heaviest first, then by key.
Before(a, b) == work[a] > work[b] \/ (work[a] = work[b] /\ a < b)
NextInLaunchOrder(key) ==
    /\ key \in Tasks \ launched
    /\ \A other \in Tasks \ launched : other # key => Before(key, other)

NextInKeyOrder(key) ==
    key \in Tasks \ launched /\ \A other \in Tasks \ launched : key <= other

Init ==
    /\ keyOf \in KeyLists /\ work \in WorkMaps /\ fault \in Faults
    /\ parallelism \in Parallelisms /\ composite \in BOOLEAN
    /\ cancelFlag = FALSE
    /\ phase = "entry"
    /\ launched = {} /\ running = {} /\ channel = <<>>
    /\ results = [k \in {} |-> "ok"]
    /\ returned = {}
    /\ result = [status |-> "Pending", key |-> -1]

Return(status, key) ==
    /\ result' = [status |-> status, key |-> key]
    /\ phase' = "done"

Cancel ==
    /\ ~cancelFlag
    /\ cancelFlag' = TRUE
    /\ UNCHANGED <<inputs, phase, launched, running, channel, results, returned, result>>

\* prepare_ordered_tasks, and the choice of path.
Serial == parallelism = 1 \/ (~composite /\ Cardinality(Tasks) <= 1)

Enter ==
    /\ phase = "entry"
    /\ \/ HasDuplicate /\ Return("DuplicateKey", -1)
       \/ ~HasDuplicate /\ cancelFlag /\ Return("Cancelled", -1)
       \/ /\ ~HasDuplicate /\ ~cancelFlag
          /\ phase' = IF Tasks = {} \/ Serial THEN "serial"
                      ELSE IF composite THEN "launch" ELSE "par"
          /\ UNCHANGED result
    /\ UNCHANGED <<inputs, cancelFlag, launched, running, channel, results,
                   returned>>

-----------------------------------------------------------------------------
(***************************************************************************)
(* One worker: tasks run on the caller in key order until one fails.  The  *)
(* plain schedulers look at the flag before each callback and count it;    *)
(* the composite scheduler does neither.                                   *)
(***************************************************************************)

SerialTask(key) ==
    /\ phase = "serial" /\ NextInKeyOrder(key)
    /\ \/ /\ ~composite /\ cancelFlag
          /\ Return("Cancelled", -1)
          /\ UNCHANGED <<launched, results, returned>>
       \/ /\ composite \/ ~cancelFlag
          /\ launched' = launched \cup {key}
          /\ returned' = IF fault[key] = "panic" THEN returned ELSE returned \cup {key}
          /\ results' = [k \in DOMAIN results \cup {key} |->
                            IF k = key THEN fault[key] ELSE results[k]]
          /\ CASE fault[key] = "ok"    -> UNCHANGED <<phase, result>>
               [] fault[key] = "error" -> Return("Failed", key)
               [] fault[key] = "panic" -> Return("Panicked", key)
    /\ UNCHANGED <<inputs, cancelFlag, running, channel>>

SerialEnd ==
    /\ phase = "serial" /\ launched = Tasks
    /\ Return("Ok", -1)
    /\ UNCHANGED <<inputs, cancelFlag, launched, running, channel, results,
                   returned>>

-----------------------------------------------------------------------------
(***************************************************************************)
(* map_ordered_composite.                                                  *)
(***************************************************************************)

\* launch takes a task out of its slot and spawns it.
Launch(key) ==
    /\ NextInLaunchOrder(key)
    /\ launched' = launched \cup {key}
    /\ running' = running \cup {key}

FirstLaunches(key) ==
    /\ phase = "launch" /\ Cardinality(launched) < OuterParallelism
    /\ Launch(key)
    /\ UNCHANGED <<inputs, cancelFlag, phase, channel, results, returned, result>>

LaunchesDone ==
    /\ phase = "launch" /\ Cardinality(launched) = OuterParallelism
    /\ phase' = "recv"
    /\ UNCHANGED <<inputs, cancelFlag, launched, running, channel, results,
                   returned, result>>

\* A pool thread runs one composite task: it looks at the flag, runs the
\* callback, counts, and sends on an unbounded channel.
RunComposite(key) ==
    LET answer == IF cancelFlag THEN "cancelled" ELSE fault[key]
    IN  /\ composite /\ key \in running
        /\ running' = running \ {key}
        /\ returned' = IF answer \in {"ok", "error"} THEN returned \cup {key} ELSE returned
        /\ channel' = Append(channel, [key |-> key, answer |-> answer])
        /\ UNCHANGED <<inputs, cancelFlag, phase, launched, results, result>>

\* Mutant: the slot of a failed task is not refilled.
RefillAfterSuccess(key) ==
    IF launched # Tasks /\ Head(channel).answer = "ok"
    THEN Launch(key) ELSE UNCHANGED <<launched, running>>

\* A freed slot is refilled at once.
Refill(key) ==
    IF launched # Tasks THEN Launch(key) ELSE UNCHANGED <<launched, running>>

Receive ==
    LET head == Head(channel)
    IN  /\ phase = "recv" /\ channel # <<>>
        /\ results' = [k \in DOMAIN results \cup {head.key} |->
                          IF k = head.key THEN head.answer ELSE results[k]]
        /\ channel' = Tail(channel)
        /\ \E key \in Tasks : Refill(key)
        /\ UNCHANGED <<inputs, cancelFlag, phase, returned, result>>

\* Mutant: the first answer that is an error wins.
SelectAny(answers) ==
    {k \in DOMAIN answers : answers[k] # "ok"}

\* The answer that decides: the first one in key order that is not a value.
Select(answers) ==
    {k \in DOMAIN answers : answers[k] # "ok" /\
        \A l \in DOMAIN answers : answers[l] # "ok" => k <= l}

StatusOf(answer) ==
    CASE answer = "error" -> "Failed"
      [] answer = "panic" -> "Panicked"
      [] answer = "cancelled" -> "Cancelled"

\* One answer per task was received.
AllAnswered == DOMAIN results = Tasks

Collect ==
    /\ phase = "recv" /\ AllAnswered
    /\ IF Select(results) = {} THEN Return("Ok", -1)
       ELSE \E k \in Select(results) : Return(StatusOf(results[k]), k)
    /\ UNCHANGED <<inputs, cancelFlag, launched, running, channel, results,
                   returned>>

-----------------------------------------------------------------------------
(***************************************************************************)
(* map_ordered_in_scope on several workers: a parallel iterator over the   *)
(* sorted tasks.  rayon (external) runs the tasks on the whole pool, so    *)
(* any number at a time.  After a panic it need not start the others; it   *)
(* unwinds with one of the panics when no callback runs any more.          *)
(***************************************************************************)

StartParallel(key) ==
    /\ phase = "par" /\ key \in Tasks \ launched
    /\ launched' = launched \cup {key}
    /\ IF cancelFlag
       THEN /\ results' = [k \in DOMAIN results \cup {key} |->
                              IF k = key THEN "cancelled" ELSE results[k]]
            /\ UNCHANGED running
       ELSE running' = running \cup {key} /\ UNCHANGED results
    /\ UNCHANGED <<inputs, cancelFlag, phase, channel, returned, result>>

EndParallel(key) ==
    /\ phase = "par" /\ key \in running
    /\ running' = running \ {key}
    /\ results' = [k \in DOMAIN results \cup {key} |->
                      IF k = key THEN fault[key] ELSE results[k]]
    /\ returned' = IF fault[key] = "panic" THEN returned ELSE returned \cup {key}
    /\ UNCHANGED <<inputs, cancelFlag, phase, launched, channel, result>>

Panics == {k \in DOMAIN results : results[k] = "panic"}

JoinParallel ==
    /\ phase = "par"
    /\ \/ running = {} /\ \E k \in Panics : Return("Panicked", k)
       \/ /\ Panics = {} /\ AllAnswered
          /\ IF Select(results) = {} THEN Return("Ok", -1)
             ELSE \E k \in Select(results) : Return(StatusOf(results[k]), k)
    /\ UNCHANGED <<inputs, cancelFlag, launched, running, channel, results,
                   returned>>

Returned == phase = "done" /\ UNCHANGED vars

Coordinator ==
    \/ Enter
    \/ \E key \in Keys : SerialTask(key)
    \/ SerialEnd
    \/ \E key \in Keys : FirstLaunches(key)
    \/ LaunchesDone
    \/ Receive
    \/ Collect
    \/ JoinParallel

Pool == \E key \in Keys : RunComposite(key) \/ StartParallel(key) \/ EndParallel(key)

Next ==
    \/ Cancel
    \/ Coordinator
    \/ Pool
    \/ Returned

Spec == Init /\ [][Next]_vars

\* The caller's thread runs, and so does the pool.
FairSpec == Spec /\ WF_vars(Coordinator) /\ WF_vars(Pool)

-----------------------------------------------------------------------------
(***************************************************************************)
(* Properties.                                                             *)
(***************************************************************************)

\* The composite scheduler never admits more than the square root of the
\* workers, keeps its slots full while tasks remain, and waits only for
\* answers that are on their way: no task is launched twice or forgotten.
OuterBounded ==
    phase = "recv" =>
        LET open == Cardinality(running) + Len(channel)
        IN  /\ open * open <= parallelism \/ open <= 1
            /\ Cardinality(launched) = open + Cardinality(DOMAIN results)
            /\ launched # Tasks => open = OuterParallelism

\* Completion order cannot change what is returned.  Without cancellation the
\* composite scheduler reports the first key whose callback fails; the plain
\* ones do unless a callback panicked.  Success means every callback ran.
FailingKeys == {k \in Tasks : fault[k] # "ok"}
ResultByKey ==
    /\ result.status = "Ok" => FailingKeys = {} /\ returned = Tasks
    /\ (result.status \in {"Failed", "Panicked"} /\ ~cancelFlag) =>
           /\ result.key \in FailingKeys
           /\ \/ \A k \in FailingKeys : result.key <= k
              \/ ~composite /\ fault[result.key] = "panic"
    /\ result.status = "Cancelled" => cancelFlag
    /\ result.status = "Failed" =>
           \A k \in Tasks : k < result.key => k \in returned /\ fault[k] = "ok"

\* Every call returns.
Terminates == <>(phase = "done")

=============================================================================
