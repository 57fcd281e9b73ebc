-------------------------- MODULE OrderedMapProofs --------------------------
(***************************************************************************)
(* Machine-checked proofs about OrderedMap, for any finite task vector,    *)
(* any work estimates and callback outcomes, any number of workers, and    *)
(* any interleaving of callbacks, answers and cancellation.                *)
(***************************************************************************)
EXTENDS OrderedMap, SequenceLemmas

Phases == {"entry", "serial", "launch", "recv", "par", "done"}
Answers == Outcomes \cup {"cancelled"}
Statuses == {"Pending", "Ok", "Failed", "Panicked", "Cancelled", "DuplicateKey"}
Messages == [key : Keys, answer : Answers]

TypeOK ==
    /\ keyOf \in [Slots -> Keys] /\ work \in [Keys -> Nat] /\ fault \in [Keys -> Outcomes]
    /\ parallelism \in Nat \ {0}
    /\ composite \in BOOLEAN /\ cancelFlag \in BOOLEAN
    /\ phase \in Phases
    /\ launched \in SUBSET Tasks /\ running \in SUBSET Tasks /\ returned \in SUBSET Tasks
    /\ channel \in Seq(Messages)
    /\ results \in [DOMAIN results -> Answers]
    /\ result \in [status : Statuses, key : Int]

\* The tasks whose answers are on their way, and those that were started and
\* have no answer yet.
Queued == [i \in 1..Len(channel) |-> channel[i].key]
Open == launched \ DOMAIN results

\* Every started task is in exactly one place: running, answered once in the
\* channel, or answered.
OnePlaceEach ==
    /\ DOMAIN results \subseteq launched
    /\ Open = running \cup ToSet(Queued)
    /\ running \cap ToSet(Queued) = {}
    /\ IsInjective(Queued)

\* An answer is what the callback did, unless the flag was seen first; a
\* callback that gave a value or an error returned.
Truthful(key, answer) ==
    /\ answer = fault[key] \/ (answer = "cancelled" /\ cancelFlag)
    /\ answer \in {"ok", "error"} => key \in returned

AnswersTruthful ==
    /\ \A k \in DOMAIN results : Truthful(k, results[k])
    /\ \A i \in 1..Len(channel) : Truthful(channel[i].key, channel[i].answer)

\* The serial path has run a prefix of the tasks in key order, without a
\* failure.
SerialPrefix ==
    phase = "serial" =>
        /\ Open = {}
        /\ \A k \in launched : results[k] = "ok" /\ \A l \in Tasks \ launched : k < l

\* The composite scheduler fills its slots before it waits and keeps them full.
SlotsFull ==
    /\ phase = "entry" => launched = {}
    /\ phase \in {"launch", "recv"} => composite
    /\ phase = "par" => ~composite
    /\ phase = "launch" =>
          DOMAIN results = {} /\ Cardinality(launched) <= OuterParallelism
    /\ phase = "recv" =>
          /\ Cardinality(Open) <= OuterParallelism
          /\ launched # Tasks => Cardinality(Open) = OuterParallelism

ResultPending == phase # "done" => result.status = "Pending"

IInv ==
    /\ TypeOK /\ OnePlaceEach /\ AnswersTruthful /\ SerialPrefix /\ SlotsFull
    /\ ResultPending /\ ResultByKey

-----------------------------------------------------------------------------
(***************************************************************************)
(* Arithmetic.                                                             *)
(***************************************************************************)

\* isqrt has a value for every number, and its square does not exceed it.
LEMMA IsqrtValue ==
  ASSUME NEW n \in Nat
  PROVE  Isqrt(n) \in Nat /\ Isqrt(n) * Isqrt(n) <= n
<1>. DEFINE S == {k \in Nat : n < (k + 1) * (k + 1)}
<1>1. S \in SUBSET Nat /\ n \in S
  OBVIOUS
<1>2. PICK k \in S : \A l \in S : k <= l
  <2>. HIDE DEF S
  <2>. QED BY <1>1, LeastNumber
<1>3. k \in Nat /\ n < (k + 1) * (k + 1)
  OBVIOUS
<1>4. k * k <= n
  <2>1. CASE k = 0
    BY <2>1
  <2>2. CASE k # 0
    <3>1. k - 1 \in Nat /\ ~(k <= k - 1)
      BY <1>3, <2>2
    <3>2. ~(n < ((k - 1) + 1) * ((k - 1) + 1))
      BY <1>2, <3>1
    <3>. QED BY <1>3, <3>2
  <2>. QED BY <2>1, <2>2
<1>5. k \in 0..n
  <2>1. k <= k * k
    BY <1>3
  <2>. QED BY <1>3, <1>4, <2>1
<1>6. \E j \in 0..n : j * j <= n /\ n < (j + 1) * (j + 1)
  BY <1>3, <1>4, <1>5
<1>7. PICK j \in 0..n : Isqrt(n) = j /\ j * j <= n
  <2>. DEFINE P(j) == j * j <= n /\ n < (j + 1) * (j + 1)
  <2>1. \E j \in 0..n : P(j)
    BY <1>6
  <2>2. Isqrt(n) = CHOOSE j \in 0..n : P(j)
    BY DEF Isqrt
  <2>. HIDE DEF P
  <2>3. Isqrt(n) \in 0..n /\ P(Isqrt(n))
    BY <2>1, <2>2
  <2>. QED BY <2>3 DEF P
<1>8. j \in Nat
  OBVIOUS
<1>. QED BY <1>7, <1>8

\* The number of composite tasks admitted at a time.
LEMMA OuterParallelismBound ==
  ASSUME parallelism \in Nat, IsFiniteSet(Tasks)
  PROVE  /\ OuterParallelism \in Nat
         /\ OuterParallelism <= Cardinality(Tasks)
         /\ \A open \in Nat : open <= OuterParallelism =>
               open * open <= parallelism \/ open <= 1
<1>. DEFINE root == Isqrt(parallelism)
            tasks == Cardinality(Tasks)
<1>1. root \in Nat /\ root * root <= parallelism /\ tasks \in Nat
  BY IsqrtValue, FS_CardinalityType
<1>2. OuterParallelism = Least(IF root = 0 THEN 1 ELSE root, tasks)
  BY DEF OuterParallelism
<1>. HIDE DEF root, tasks
<1>3. OuterParallelism \in Nat /\ OuterParallelism <= tasks
  BY <1>1, <1>2 DEF Least
<1>4. ASSUME NEW open \in Nat, open <= OuterParallelism
      PROVE  open * open <= parallelism \/ open <= 1
  <2>1. CASE root = 0
    BY <1>1, <1>2, <1>3, <1>4, <2>1 DEF Least
  <2>2. CASE root # 0
    <3>1. open <= root
      BY <1>1, <1>2, <1>3, <1>4, <2>2 DEF Least
    <3>2. open * open <= root * root
      BY <1>1, <3>1
    <3>. QED BY <1>1, <3>2
  <2>. QED BY <2>1, <2>2
<1>. QED BY <1>3, <1>4 DEF tasks

-----------------------------------------------------------------------------
(***************************************************************************)
(* Frames.                                                                 *)
(***************************************************************************)

\* The task set is a finite set of keys, which are numbers.
LEMMA TasksFacts ==
  ASSUME TypeOK
  PROVE  /\ IsFiniteSet(Tasks) /\ Tasks \subseteq Keys /\ Tasks \subseteq Nat
         /\ parallelism \in Nat
<1>1. keyOf \in Surjection(Slots, Tasks)
  BY DEF TypeOK, Tasks, Surjection
<1>2. IsFiniteSet(Tasks)
  BY <1>1, SlotsAssumption, FS_Surjection
<1>. QED BY <1>2, SlotsAssumption DEF TypeOK, Tasks

\* No step changes the call's inputs or what is computed from them.
LEMMA InputsFrame ==
  ASSUME UNCHANGED inputs
  PROVE  /\ keyOf' = keyOf /\ work' = work /\ fault' = fault /\ parallelism' = parallelism
         /\ composite' = composite
         /\ Tasks' = Tasks /\ OuterParallelism' = OuterParallelism
         /\ FailingKeys' = FailingKeys
<1>1. /\ keyOf' = keyOf /\ work' = work /\ fault' = fault /\ parallelism' = parallelism
      /\ composite' = composite
  BY DEF inputs
<1>2. Tasks' = Tasks
  BY <1>1 DEF Tasks
<1>3. FailingKeys' = FailingKeys
  BY <1>1, <1>2 DEF FailingKeys
<1>4. OuterParallelism' = OuterParallelism
  BY <1>1, <1>2 DEF OuterParallelism
<1>. QED BY <1>1, <1>2, <1>3, <1>4

\* A result stays right while callbacks go on and the flag is raised.
LEMMA ResultKept ==
  ASSUME IInv, UNCHANGED inputs, result' = result,
         returned \subseteq returned', returned' \subseteq Tasks, cancelFlag => cancelFlag'
  PROVE  ResultByKey'
<1>1. /\ Tasks' = Tasks /\ FailingKeys' = FailingKeys /\ fault' = fault /\ composite' = composite
  BY InputsFrame
<1>2. ResultByKey
  BY DEF IInv
<1>3. (result.status = "Ok" => FailingKeys = {} /\ returned = Tasks)'
  BY <1>1, <1>2 DEF ResultByKey
<1>4. ((result.status \in {"Failed", "Panicked"} /\ ~cancelFlag) =>
           /\ result.key \in FailingKeys
           /\ \/ \A k \in FailingKeys : result.key <= k
              \/ ~composite /\ fault[result.key] = "panic")'
  BY <1>1, <1>2 DEF ResultByKey
<1>5. (result.status = "Cancelled" => cancelFlag)'
  BY <1>2 DEF ResultByKey
<1>6. (result.status = "Failed" =>
           \A k \in Tasks : k < result.key => k \in returned /\ fault[k] = "ok")'
  BY <1>1, <1>2 DEF ResultByKey
<1>. QED BY <1>3, <1>4, <1>5, <1>6 DEF ResultByKey

\* While the call has not returned there is nothing to say about its result.
LEMMA PendingByKey == ASSUME result.status = "Pending" PROVE ResultByKey
BY DEF ResultByKey

\* Answers stay true while callbacks go on and the flag is raised.
LEMMA TruthfulKept ==
  ASSUME NEW key, NEW answer, Truthful(key, answer), fault' = fault,
         returned \subseteq returned', cancelFlag => cancelFlag'
  PROVE  Truthful(key, answer)'
BY DEF Truthful

\* The order of keys in the channel is a sequence of keys.
LEMMA QueuedFacts ==
  ASSUME channel \in Seq(Messages)
  PROVE  /\ Queued \in Seq(Keys) /\ Len(Queued) = Len(channel) /\ Len(channel) \in Nat
         /\ ToSet(Queued) = {channel[i].key : i \in 1..Len(channel)}
<1>1. /\ Len(channel) \in Nat /\ \A i \in 1..Len(channel) : channel[i] \in Messages
  BY ElementOfSeq, LenProperties
<1>2. Queued \in [1..Len(channel) -> Keys]
  BY <1>1 DEF Queued, Messages
<1>3. Queued \in Seq(Keys) /\ Len(Queued) = Len(channel)
  BY <1>1, <1>2, SeqDef, LenProperties
<1>4. ToSet(Queued) = {Queued[i] : i \in 1..Len(channel)}
  BY <1>3, ToSetByPosition
<1>5. ToSet(Queued) = {channel[i].key : i \in 1..Len(channel)}
  BY <1>4 DEF Queued
<1>. QED BY <1>1, <1>3, <1>5

\* How many tasks are open, and how many were started.
LEMMA OpenCount ==
  ASSUME TypeOK, OnePlaceEach
  PROVE  /\ IsFiniteSet(launched) /\ IsFiniteSet(Open) /\ IsFiniteSet(DOMAIN results)
         /\ Cardinality(Open) \in Nat
         /\ Cardinality(Open) = Cardinality(running) + Len(channel)
         /\ Cardinality(launched) = Cardinality(Open) + Cardinality(DOMAIN results)
<1>1. IsFiniteSet(launched) /\ IsFiniteSet(Open) /\ IsFiniteSet(DOMAIN results) /\ IsFiniteSet(running)
  <2>1. launched \subseteq Tasks /\ Open \subseteq Tasks /\ DOMAIN results \subseteq Tasks
        /\ running \subseteq Tasks
    BY DEF TypeOK, OnePlaceEach, Open
  <2>. QED BY <2>1, TasksFacts, FS_Subset
<1>2. Cardinality(Open) = Cardinality(running) + Len(channel)
  <2>1. IsFiniteSet(ToSet(Queued)) /\ Cardinality(ToSet(Queued)) = Len(channel)
    BY QueuedFacts, ToSetCardinality DEF TypeOK, OnePlaceEach
  <2>. QED BY <1>1, <2>1, DisjointCardinality DEF OnePlaceEach
<1>3. Cardinality(launched) = Cardinality(Open) + Cardinality(DOMAIN results)
  <2>1. launched = Open \cup DOMAIN results /\ Open \cap DOMAIN results = {}
    BY DEF OnePlaceEach, Open
  <2>. QED BY <1>1, <2>1, DisjointCardinality
<1>. QED BY <1>1, <1>2, <1>3, FS_CardinalityType

\* A send puts one key at the end of the queue.
LEMMA QueuedSend ==
  ASSUME channel \in Seq(Messages), NEW m \in Messages, channel' = Append(channel, m)
  PROVE  /\ channel' \in Seq(Messages) /\ Queued' = Append(Queued, m.key)
         /\ \A i \in 1..Len(channel') :
               channel'[i] = m \/ \E j \in 1..Len(channel) : channel'[i] = channel[j]
<1>1. /\ channel' \in Seq(Messages) /\ Len(channel') = Len(channel) + 1 /\ Len(channel) \in Nat
      /\ \A i \in 1..Len(channel) : channel'[i] = channel[i]
      /\ channel'[Len(channel) + 1] = m
  BY AppendProperties, LenProperties
<1>2. /\ Queued \in Seq(Keys) /\ Len(Queued) = Len(channel) /\ m.key \in Keys
  BY QueuedFacts DEF Messages
<1>3. /\ Append(Queued, m.key) \in Seq(Keys) /\ Len(Append(Queued, m.key)) = Len(channel) + 1
      /\ \A i \in 1..Len(channel) : Append(Queued, m.key)[i] = Queued[i]
      /\ Append(Queued, m.key)[Len(channel) + 1] = m.key
  BY <1>2, AppendProperties
<1>4. Queued' \in Seq(Keys) /\ Len(Queued') = Len(channel')
  <2>1. \A i \in 1..Len(channel') : channel'[i] \in Messages
    BY <1>1, ElementOfSeq
  <2>2. Queued' = [i \in 1..Len(channel') |-> channel'[i].key]
    BY DEF Queued
  <2>3. Queued' \in [1..Len(channel') -> Keys] /\ Len(channel') \in Nat
    BY <1>1, <2>1, <2>2 DEF Messages
  <2>. QED BY <2>3, SeqDef, LenProperties
<1>5. \A i \in 1..Len(channel) + 1 : Queued'[i] = Append(Queued, m.key)[i]
  BY <1>1, <1>3 DEF Queued
<1>6. Queued' = Append(Queued, m.key)
  BY <1>1, <1>3, <1>4, <1>5, SeqEqual
<1>. QED BY <1>1, <1>6

\* A receive takes the first key off the queue.
LEMMA QueuedReceive ==
  ASSUME channel \in Seq(Messages), channel # <<>>, channel' = Tail(channel)
  PROVE  /\ channel' \in Seq(Messages) /\ Queued' = Tail(Queued)
         /\ Queued # <<>> /\ Head(Queued) = Head(channel).key
         /\ Head(channel) \in Messages /\ 1 \in 1..Len(channel) /\ Head(channel) = channel[1]
         /\ \A i \in 1..Len(channel') : i + 1 \in 1..Len(channel) /\ channel'[i] = channel[i + 1]
<1>1. /\ channel' \in Seq(Messages) /\ Len(channel') = Len(channel) - 1
      /\ Len(channel) \in Nat /\ Len(channel) >= 1
      /\ \A i \in 1..Len(channel') : channel'[i] = channel[i + 1]
      /\ Head(channel) = channel[1] /\ channel[1] \in Messages
  BY HeadTailProperties, LenProperties, ElementOfSeq
<1>2. /\ Queued \in Seq(Keys) /\ Len(Queued) = Len(channel)
  BY QueuedFacts
<1>3. Queued # <<>>
  BY <1>1, <1>2, EmptySeq
<1>4. /\ Tail(Queued) \in Seq(Keys) /\ Len(Tail(Queued)) = Len(channel) - 1
      /\ \A i \in 1..Len(channel) - 1 : Tail(Queued)[i] = Queued[i + 1]
      /\ Head(Queued) = Queued[1]
  BY <1>2, <1>3, HeadTailProperties
<1>5. Queued' \in Seq(Keys) /\ Len(Queued') = Len(channel')
  <2>1. \A i \in 1..Len(channel') : channel'[i] \in Messages
    BY <1>1, ElementOfSeq
  <2>2. Queued' = [i \in 1..Len(channel') |-> channel'[i].key]
    BY DEF Queued
  <2>3. Queued' \in [1..Len(channel') -> Keys] /\ Len(channel') \in Nat
    BY <1>1, <2>1, <2>2 DEF Messages
  <2>. QED BY <2>3, SeqDef, LenProperties
<1>6. \A i \in 1..Len(channel) - 1 : Queued'[i] = Tail(Queued)[i]
  BY <1>1, <1>4 DEF Queued
<1>7. Queued' = Tail(Queued)
  BY <1>1, <1>4, <1>5, <1>6, SeqEqual
<1>8. Head(Queued) = Head(channel).key
  BY <1>1, <1>4 DEF Queued
<1>. QED BY <1>1, <1>3, <1>7, <1>8

-----------------------------------------------------------------------------
(***************************************************************************)
(* The steps.                                                              *)
(***************************************************************************)

\* The invariant holds when the call is made.
LEMMA InitIInv == Init => IInv
<1>. SUFFICES ASSUME Init PROVE IInv
  OBVIOUS
<1>1. /\ launched = {} /\ running = {} /\ channel = <<>> /\ DOMAIN results = {} /\ returned = {}
      /\ phase = "entry" /\ result = [status |-> "Pending", key |-> -1]
      /\ results \in [DOMAIN results -> Answers] /\ Len(channel) = 0
  BY DEF Init
<1>2. channel \in Seq(Messages)
  BY <1>1, EmptySeq
<1>3. TypeOK
  <2>1. /\ keyOf \in [Slots -> Keys] /\ work \in [Keys -> Nat] /\ fault \in [Keys -> Outcomes]
        /\ parallelism \in Nat \ {0} /\ composite \in BOOLEAN /\ cancelFlag \in BOOLEAN
    BY ListsAssumption DEF Init
  <2>. QED BY <1>1, <1>2, <2>1 DEF TypeOK, Phases, Statuses
<1>4. OnePlaceEach
  <2>1. ToSet(Queued) = {}
    BY <1>1, <1>2, QueuedFacts
  <2>2. IsInjective(Queued)
    BY <1>1 DEF Queued, IsInjective
  <2>. QED BY <1>1, <2>1, <2>2 DEF OnePlaceEach, Open
<1>5. AnswersTruthful
  BY <1>1 DEF AnswersTruthful
<1>6. SerialPrefix /\ SlotsFull /\ ResultPending /\ ResultByKey
  BY <1>1, PendingByKey DEF SerialPrefix, SlotsFull, ResultPending
<1>. QED BY <1>3, <1>4, <1>5, <1>6 DEF IInv

\* Cancellation only weakens what a result promises.
LEMMA CancelStep == ASSUME IInv, Cancel PROVE IInv'
<1>. USE DEF IInv
<1>1. /\ cancelFlag' = TRUE /\ UNCHANGED inputs
      /\ UNCHANGED <<phase, launched, running, channel, results, returned, result>>
  BY DEF Cancel
<1>2. /\ Tasks' = Tasks /\ OuterParallelism' = OuterParallelism /\ fault' = fault
      /\ composite' = composite /\ Queued' = Queued /\ Open' = Open
      /\ keyOf' = keyOf /\ work' = work /\ parallelism' = parallelism
  BY <1>1, InputsFrame DEF Queued, Open
<1>3. TypeOK'
  BY <1>1, <1>2 DEF TypeOK
<1>4. OnePlaceEach'
  BY <1>1, <1>2 DEF OnePlaceEach
<1>5. AnswersTruthful'
  BY <1>1, <1>2, TruthfulKept DEF AnswersTruthful
<1>6. SerialPrefix' /\ SlotsFull' /\ ResultPending'
  BY <1>1, <1>2 DEF SerialPrefix, SlotsFull, ResultPending
<1>7. ResultByKey'
  BY <1>1, ResultKept DEF TypeOK
<1>. QED BY <1>3, <1>4, <1>5, <1>6, <1>7

\* A return changes the phase and the result only.
LEMMA ReturnStep ==
  ASSUME IInv, UNCHANGED <<inputs, cancelFlag, launched, running, channel, results, returned>>,
         NEW status \in Statuses, NEW key \in Int, Return(status, key), ResultByKey'
  PROVE  IInv'
<1>. USE DEF IInv
<1>1. /\ phase' = "done" /\ result' = [status |-> status, key |-> key] /\ UNCHANGED inputs
      /\ UNCHANGED <<cancelFlag, launched, running, channel, results, returned>>
  BY DEF Return
<1>2. /\ Tasks' = Tasks /\ OuterParallelism' = OuterParallelism /\ fault' = fault
      /\ composite' = composite /\ Queued' = Queued /\ Open' = Open
      /\ keyOf' = keyOf /\ work' = work /\ parallelism' = parallelism
  BY <1>1, InputsFrame DEF Queued, Open
<1>3. TypeOK'
  BY <1>1, <1>2 DEF TypeOK, Phases
<1>4. OnePlaceEach'
  BY <1>1, <1>2 DEF OnePlaceEach
<1>5. AnswersTruthful'
  BY <1>1, <1>2, TruthfulKept DEF AnswersTruthful
<1>6. SerialPrefix' /\ SlotsFull' /\ ResultPending'
  BY <1>1 DEF SerialPrefix, SlotsFull, ResultPending
<1>. QED BY <1>3, <1>4, <1>5, <1>6

\* What an answer other than a value is reported as.
LEMMA StatusFacts ==
  /\ StatusOf("error") = "Failed" /\ StatusOf("panic") = "Panicked"
  /\ StatusOf("cancelled") = "Cancelled"
BY DEF StatusOf

\* With one answer per task and no answer but values, every callback succeeded.
LEMMA AllValues ==
  ASSUME IInv, AllAnswered, \A k \in DOMAIN results : results[k] = "ok"
  PROVE  FailingKeys = {} /\ returned = Tasks
<1>1. \A k \in Tasks : fault[k] = "ok" /\ k \in returned
  BY DEF IInv, AnswersTruthful, Truthful, AllAnswered
<1>. QED BY <1>1 DEF FailingKeys, IInv, TypeOK

\* If no answer is selected there is no answer but values.
LEMMA SelectNone ==
  ASSUME IInv, Select(results) = {}
  PROVE  \A k \in DOMAIN results : results[k] = "ok"
<1>. DEFINE S == {k \in DOMAIN results : results[k] # "ok"}
<1>1. S \in SUBSET Nat
  BY TasksFacts DEF IInv, TypeOK, OnePlaceEach
<1>2. ASSUME S # {} PROVE FALSE
  <2>1. PICK k \in S : \A l \in S : k <= l
    <3>. HIDE DEF S
    <3>. QED BY <1>1, <1>2, LeastNumber
  <2>2. k \in Select(results)
    BY <2>1 DEF Select
  <2>. QED BY <2>2
<1>. QED BY <1>2

\* The least answer that is not a value decides, whatever the order in which
\* the answers came.
LEMMA SelectDecides ==
  ASSUME IInv, AllAnswered, NEW key \in Select(results),
         UNCHANGED <<inputs, cancelFlag, returned>>,
         result' = [status |-> StatusOf(results[key]), key |-> key]
  PROVE  /\ StatusOf(results[key]) \in Statuses /\ key \in Int
         /\ ResultByKey'
<1>1. /\ key \in Tasks /\ results[key] \in Answers /\ results[key] # "ok"
      /\ \A l \in Tasks : results[l] # "ok" => key <= l
  BY DEF Select, AllAnswered, IInv, TypeOK
<1>2. /\ Tasks' = Tasks /\ FailingKeys' = FailingKeys /\ fault' = fault /\ composite' = composite
      /\ cancelFlag' = cancelFlag /\ returned' = returned
  BY InputsFrame
<1>3. results[key] \in {"error", "panic", "cancelled"}
  BY <1>1 DEF Answers, Outcomes
<1>4. \A l \in Tasks : /\ results[l] = fault[l] \/ (results[l] = "cancelled" /\ cancelFlag)
                       /\ results[l] \in {"ok", "error"} => l \in returned
  BY DEF IInv, AnswersTruthful, Truthful, AllAnswered
<1>5. key \in Int /\ \A l \in Tasks : l \in Int
  BY <1>1, TasksFacts DEF IInv
<1>6. result'.status = StatusOf(results[key]) /\ result'.key = key
  OBVIOUS
<1>7. ASSUME ~cancelFlag
      PROVE  key \in FailingKeys /\ \A k \in FailingKeys : key <= k
  BY <1>1, <1>4, <1>7 DEF FailingKeys
<1>8. \A k \in Tasks : k < key => k \in returned /\ fault[k] = "ok"
  <2>. SUFFICES ASSUME NEW k \in Tasks, k < key PROVE k \in returned /\ fault[k] = "ok"
    OBVIOUS
  <2>1. results[k] = "ok"
    BY <1>1, <1>5
  <2>. QED BY <1>4, <2>1
<1>9. CASE results[key] = "cancelled"
  <2>1. result'.status = "Cancelled" /\ cancelFlag
    BY <1>1, <1>4, <1>6, <1>9, StatusFacts DEF IInv, TypeOK, Outcomes, Tasks
  <2>. QED BY <1>2, <1>5, <1>6, <2>1 DEF ResultByKey, Statuses
<1>10. CASE results[key] \in {"error", "panic"}
  <2>1. result'.status \in {"Failed", "Panicked"}
    BY <1>6, <1>10, StatusFacts
  <2>2. ResultByKey'
    BY <1>2, <1>6, <1>7, <1>8, <2>1 DEF ResultByKey
  <2>. QED BY <1>5, <1>6, <2>1, <2>2 DEF Statuses
<1>. QED BY <1>3, <1>9, <1>10

\* Success means that every callback succeeded.
LEMMA OkStep ==
  ASSUME IInv, UNCHANGED <<inputs, cancelFlag, launched, running, channel, results, returned>>,
         Return("Ok", -1), AllAnswered, \A k \in DOMAIN results : results[k] = "ok"
  PROVE  IInv'
<1>1. FailingKeys = {} /\ returned = Tasks
  BY AllValues
<1>2. /\ Tasks' = Tasks /\ FailingKeys' = FailingKeys /\ returned' = returned
      /\ result'.status = "Ok"
  BY InputsFrame DEF Return
<1>3. ResultByKey'
  BY <1>1, <1>2 DEF ResultByKey
<1>. QED BY <1>3, ReturnStep DEF Statuses

\* The prologue returns an error or chooses a path with nothing started.
LEMMA EnterStep == ASSUME IInv, Enter PROVE IInv'
<1>. USE DEF IInv
<1>1. /\ UNCHANGED inputs /\ phase = "entry"
      /\ UNCHANGED <<cancelFlag, launched, running, channel, results, returned>>
  BY DEF Enter
<1>2. CASE Return("DuplicateKey", -1)
  <2>1. ResultByKey'
    BY <1>2 DEF Return, ResultByKey
  <2>. QED BY <1>1, <1>2, <2>1, ReturnStep DEF Statuses
<1>3. CASE cancelFlag /\ Return("Cancelled", -1)
  <2>1. ResultByKey'
    BY <1>1, <1>3 DEF Return, ResultByKey
  <2>. QED BY <1>1, <1>3, <2>1, ReturnStep DEF Statuses
<1>4. CASE /\ phase' = IF Tasks = {} \/ Serial THEN "serial"
                       ELSE IF composite THEN "launch" ELSE "par"
           /\ UNCHANGED result
  <2>1. /\ Tasks' = Tasks /\ OuterParallelism' = OuterParallelism /\ fault' = fault
        /\ composite' = composite /\ Queued' = Queued /\ Open' = Open
        /\ keyOf' = keyOf /\ work' = work /\ parallelism' = parallelism
    BY <1>1, InputsFrame DEF Queued, Open
  <2>2. launched = {} /\ DOMAIN results = {} /\ Open = {}
    BY <1>1 DEF SlotsFull, OnePlaceEach, Open
  <2>3. phase' \in {"serial", "launch", "par"} /\ (phase' = "launch" => composite)
        /\ (phase' = "par" => ~composite)
    BY <1>4
  <2>4. TypeOK'
    BY <1>1, <1>4, <2>1, <2>3 DEF TypeOK, Phases
  <2>5. OnePlaceEach'
    BY <1>1, <2>1 DEF OnePlaceEach
  <2>6. AnswersTruthful'
    BY <1>1, <2>1, TruthfulKept DEF AnswersTruthful
  <2>7. SerialPrefix'
    BY <1>1, <2>1, <2>2 DEF SerialPrefix
  <2>8. SlotsFull'
    <3>1. Cardinality(launched) = 0 /\ OuterParallelism \in Nat
      BY <2>2, FS_EmptySet, OuterParallelismBound, TasksFacts
    <3>. QED BY <1>1, <2>1, <2>2, <2>3, <3>1 DEF SlotsFull
  <2>9. ResultPending' /\ ResultByKey'
    BY <1>1, <1>4, <2>3, ResultKept DEF ResultPending, TypeOK
  <2>. QED BY <2>4, <2>5, <2>6, <2>7, <2>8, <2>9
<1>. QED BY <1>2, <1>3, <1>4 DEF Enter

\* All answers are in: the coordinator selects by key.
LEMMA CollectStep == ASSUME IInv, Collect PROVE IInv'
<1>1. /\ AllAnswered
      /\ UNCHANGED <<inputs, cancelFlag, launched, running, channel, results, returned>>
  BY DEF Collect
<1>2. CASE Select(results) = {} /\ Return("Ok", -1)
  BY <1>1, <1>2, SelectNone, OkStep
<1>3. ASSUME NEW k \in Select(results), Return(StatusOf(results[k]), k)
      PROVE  IInv'
  BY <1>1, <1>3, SelectDecides, ReturnStep DEF Return
<1>. QED BY <1>2, <1>3 DEF Collect

\* The join of a parallel iterator: a panic unwinds, otherwise by key.
LEMMA JoinStep == ASSUME IInv, JoinParallel PROVE IInv'
<1>1. /\ phase = "par"
      /\ UNCHANGED <<inputs, cancelFlag, launched, running, channel, results, returned>>
  BY DEF JoinParallel
<1>2. CASE AllAnswered /\ Select(results) = {} /\ Return("Ok", -1)
  BY <1>1, <1>2, SelectNone, OkStep
<1>3. ASSUME AllAnswered, NEW k \in Select(results), Return(StatusOf(results[k]), k)
      PROVE  IInv'
  BY <1>1, <1>3, SelectDecides, ReturnStep DEF Return
<1>4. ASSUME NEW k \in Panics, Return("Panicked", k)
      PROVE  IInv'
  <2>1. k \in DOMAIN results /\ results[k] = "panic" /\ k \in Tasks
    BY <1>4 DEF Panics, IInv, OnePlaceEach, TypeOK
  <2>2. fault[k] = "panic" /\ ~composite /\ k \in Int
    BY <1>1, <2>1, TasksFacts DEF IInv, AnswersTruthful, Truthful, SlotsFull
  <2>3. /\ FailingKeys' = FailingKeys /\ fault' = fault /\ composite' = composite
        /\ result'.status = "Panicked" /\ result'.key = k
    BY <1>1, <1>4, InputsFrame DEF Return
  <2>4. k \in FailingKeys
    BY <2>1, <2>2 DEF FailingKeys
  <2>5. ResultByKey'
    BY <2>2, <2>3, <2>4 DEF ResultByKey
  <2>. QED BY <1>1, <1>4, <2>2, <2>5, ReturnStep DEF Statuses
<1>. QED BY <1>2, <1>3, <1>4 DEF JoinParallel

\* The serial path ends when every task ran.
LEMMA SerialEndStep == ASSUME IInv, SerialEnd PROVE IInv'
<1>1. /\ phase = "serial" /\ launched = Tasks /\ Return("Ok", -1)
      /\ UNCHANGED <<inputs, cancelFlag, launched, running, channel, results, returned>>
  BY DEF SerialEnd
<1>2. AllAnswered /\ \A k \in DOMAIN results : results[k] = "ok"
  BY <1>1 DEF IInv, SerialPrefix, OnePlaceEach, Open, AllAnswered
<1>. QED BY <1>1, <1>2, OkStep

\* One more answer is kept by key.
LEMMA AnswerKept ==
  ASSUME TypeOK, NEW key, NEW answer \in Answers,
         results' = [k \in DOMAIN results \cup {key} |-> IF k = key THEN answer ELSE results[k]]
  PROVE  /\ DOMAIN results' = DOMAIN results \cup {key}
         /\ results' \in [DOMAIN results' -> Answers]
         /\ results'[key] = answer
         /\ \A k \in DOMAIN results : k # key => results'[k] = results[k]
BY DEF TypeOK

\* The serial path runs the least task that has not run.
LEMMA SerialTaskStep == ASSUME IInv, NEW key \in Keys, SerialTask(key) PROVE IInv'
<1>. USE DEF IInv
<1>1. /\ phase = "serial" /\ key \in Tasks \ launched /\ key \in Int
      /\ \A other \in Tasks \ launched : key <= other
      /\ UNCHANGED inputs /\ UNCHANGED <<cancelFlag, running, channel>>
  BY TasksFacts DEF SerialTask, NextInKeyOrder
<1>2. CASE /\ cancelFlag /\ Return("Cancelled", -1)
           /\ UNCHANGED <<launched, results, returned>>
  <2>1. ResultByKey'
    BY <1>1, <1>2 DEF Return, ResultByKey
  <2>. QED BY <1>1, <1>2, <2>1, ReturnStep DEF Statuses
<1>3. CASE /\ launched' = launched \cup {key}
           /\ returned' = IF fault[key] = "panic" THEN returned ELSE returned \cup {key}
           /\ results' = [k \in DOMAIN results \cup {key} |->
                             IF k = key THEN fault[key] ELSE results[k]]
           /\ CASE fault[key] = "ok"    -> UNCHANGED <<phase, result>>
                [] fault[key] = "error" -> Return("Failed", key)
                [] fault[key] = "panic" -> Return("Panicked", key)
  <2>1. /\ Tasks' = Tasks /\ FailingKeys' = FailingKeys /\ fault' = fault
        /\ composite' = composite /\ Queued' = Queued /\ parallelism' = parallelism
        /\ keyOf' = keyOf /\ work' = work
    BY <1>1, InputsFrame DEF Queued
  <2>2. fault[key] \in {"ok", "error", "panic"}
    BY DEF TypeOK, Outcomes
  <2>3. /\ fault[key] = "ok" => phase' = phase /\ result' = result
        /\ fault[key] = "error" => phase' = "done" /\ result' = [status |-> "Failed", key |-> key]
        /\ fault[key] = "panic" => phase' = "done" /\ result' = [status |-> "Panicked", key |-> key]
    BY <1>3 DEF Return
  <2>4. /\ DOMAIN results' = DOMAIN results \cup {key} /\ results' \in [DOMAIN results' -> Answers]
        /\ results'[key] = fault[key]
        /\ \A k \in DOMAIN results : k # key => results'[k] = results[k]
    BY <1>3, <2>2, AnswerKept DEF Answers, Outcomes
  <2>5. /\ launched = DOMAIN results /\ Open = {}
        /\ \A k \in launched : results[k] = "ok" /\ \A l \in Tasks \ launched : k < l
    BY <1>1 DEF SerialPrefix, OnePlaceEach, Open
  <2>6. Open' = {} /\ launched' = DOMAIN results'
    BY <1>3, <2>4, <2>5 DEF Open
  <2>7. TypeOK'
    <3>1. /\ launched' \in SUBSET Tasks' /\ running' \in SUBSET Tasks'
          /\ returned' \in SUBSET Tasks' /\ channel' \in Seq(Messages)
          /\ cancelFlag' \in BOOLEAN
      BY <1>1, <1>3, <2>1 DEF TypeOK
    <3>2. phase' \in Phases /\ result' \in [status : Statuses, key : Int]
      BY <1>1, <2>2, <2>3 DEF TypeOK, Phases, Statuses
    <3>. QED BY <2>1, <2>4, <3>1, <3>2 DEF TypeOK
  <2>8. OnePlaceEach'
    BY <1>1, <2>1, <2>5, <2>6 DEF OnePlaceEach
  <2>9. AnswersTruthful'
    <3>1. Truthful(key, fault[key])'
      BY <1>3, <2>1, <2>2 DEF Truthful
    <3>2. \A k \in DOMAIN results : k # key => Truthful(k, results[k])'
      BY <1>1, <1>3, <2>1, <2>4 DEF AnswersTruthful, Truthful
    <3>3. \A i \in 1..Len(channel) : Truthful(channel[i].key, channel[i].answer)'
      BY <1>1, <1>3, <2>1, TruthfulKept DEF AnswersTruthful
    <3>. QED BY <1>1, <2>1, <2>4, <3>1, <3>2, <3>3 DEF AnswersTruthful, Truthful
  <2>10. SerialPrefix'
    <3>1. ASSUME phase' = "serial"
          PROVE  /\ Open' = {}
                 /\ \A k \in launched' : results'[k] = "ok" /\ \A l \in Tasks' \ launched' : k < l
      <4>1. fault[key] = "ok"
        BY <2>2, <2>3, <3>1
      <4>2. \A l \in Tasks \ launched' : l \in Int /\ key < l
        <5>. SUFFICES ASSUME NEW l \in Tasks \ launched' PROVE l \in Int /\ key < l
          OBVIOUS
        <5>1. l \in Tasks \ launched /\ l # key /\ key <= l /\ l \in Int
          BY <1>1, <1>3, TasksFacts
        <5>. QED BY <1>1, <5>1
      <4>. QED BY <1>3, <2>1, <2>4, <2>5, <2>6, <4>1, <4>2
    <3>. QED BY <3>1 DEF SerialPrefix
  <2>11. SlotsFull'
    BY <1>1, <2>2, <2>3 DEF SlotsFull
  <2>12. ResultPending' /\ ResultByKey'
    <3>1. CASE fault[key] = "ok"
      BY <1>1, <1>3, <2>1, <2>3, <2>7, <3>1, ResultKept DEF ResultPending, TypeOK
    <3>2. CASE fault[key] # "ok"
      <4>1. /\ phase' = "done" /\ result'.status \in {"Failed", "Panicked"} /\ result'.key = key
        BY <2>2, <2>3, <3>2
      <4>2. key \in FailingKeys
        BY <1>1, <3>2 DEF FailingKeys
      <4>3. \A k \in launched : fault[k] = "ok" /\ k \in returned
        BY <2>5 DEF AnswersTruthful, Truthful
      <4>4. \A k \in FailingKeys : key <= k
        BY <1>1, <4>3 DEF FailingKeys
      <4>5. \A k \in Tasks : k < key => k \in returned /\ fault[k] = "ok"
        <5>. SUFFICES ASSUME NEW k \in Tasks, k < key PROVE k \in launched
          BY <4>3
        <5>1. k \in Int
          BY TasksFacts
        <5>. QED BY <1>1, <5>1
      <4>6. returned \subseteq returned'
        BY <1>3
      <4>. QED BY <2>1, <4>1, <4>2, <4>4, <4>5, <4>6 DEF ResultPending, ResultByKey
    <3>. QED BY <3>1, <3>2
  <2>. QED BY <2>7, <2>8, <2>9, <2>10, <2>11, <2>12
<1>. QED BY <1>2, <1>3 DEF SerialTask

\* Adding an element to a finite set of tasks, or taking one away, counts one.
LEMMA CountOne ==
  ASSUME NEW S, IsFiniteSet(S), NEW e
  PROVE  /\ Cardinality(S) \in Nat
         /\ e \notin S => Cardinality(S \cup {e}) = Cardinality(S) + 1
         /\ e \in S => Cardinality(S \ {e}) = Cardinality(S) - 1
BY FS_CardinalityType, FS_AddElement, FS_RemoveElement

\* The first launches fill the slots and no more.
LEMMA FirstLaunchesStep == ASSUME IInv, NEW key \in Keys, FirstLaunches(key) PROVE IInv'
<1>. USE DEF IInv
<1>1. /\ phase = "launch" /\ key \in Tasks \ launched /\ Cardinality(launched) < OuterParallelism
      /\ launched' = launched \cup {key} /\ running' = running \cup {key}
      /\ UNCHANGED inputs /\ UNCHANGED <<cancelFlag, phase, channel, results, returned, result>>
  BY DEF FirstLaunches, Launch, NextInLaunchOrder
<1>2. /\ Tasks' = Tasks /\ OuterParallelism' = OuterParallelism /\ fault' = fault
      /\ composite' = composite /\ Queued' = Queued
      /\ keyOf' = keyOf /\ work' = work /\ parallelism' = parallelism
  BY <1>1, InputsFrame DEF Queued
<1>3. TypeOK'
  BY <1>1, <1>2 DEF TypeOK
<1>4. OnePlaceEach'
  <2>1. key \notin DOMAIN results /\ key \notin Open /\ Open' = Open \cup {key}
    BY <1>1 DEF OnePlaceEach, Open
  <2>. QED BY <1>1, <1>2, <2>1 DEF OnePlaceEach
<1>5. AnswersTruthful'
  BY <1>1, <1>2 DEF AnswersTruthful, Truthful
<1>6. SerialPrefix' /\ ResultPending' /\ ResultByKey'
  BY <1>1, ResultKept DEF SerialPrefix, ResultPending, TypeOK
<1>7. SlotsFull'
  <2>1. Cardinality(launched') = Cardinality(launched) + 1 /\ Cardinality(launched) \in Nat
    BY <1>1, OpenCount, CountOne
  <2>2. OuterParallelism \in Nat
    BY OuterParallelismBound, TasksFacts
  <2>3. Cardinality(launched') <= OuterParallelism'
    BY <1>1, <1>2, <2>1, <2>2
  <2>. QED BY <1>1, <1>2, <2>3 DEF SlotsFull
<1>. QED BY <1>3, <1>4, <1>5, <1>6, <1>7

\* The coordinator starts to wait with full slots.
LEMMA LaunchesDoneStep == ASSUME IInv, LaunchesDone PROVE IInv'
<1>. USE DEF IInv
<1>1. /\ phase = "launch" /\ Cardinality(launched) = OuterParallelism /\ phase' = "recv"
      /\ UNCHANGED inputs
      /\ UNCHANGED <<cancelFlag, launched, running, channel, results, returned, result>>
  BY DEF LaunchesDone
<1>2. /\ Tasks' = Tasks /\ OuterParallelism' = OuterParallelism /\ fault' = fault
      /\ composite' = composite /\ Queued' = Queued /\ Open' = Open
      /\ keyOf' = keyOf /\ work' = work /\ parallelism' = parallelism
  BY <1>1, InputsFrame DEF Queued, Open
<1>3. TypeOK'
  BY <1>1, <1>2 DEF TypeOK, Phases
<1>4. OnePlaceEach' /\ AnswersTruthful'
  BY <1>1, <1>2 DEF OnePlaceEach, AnswersTruthful, Truthful
<1>5. SerialPrefix' /\ ResultPending' /\ ResultByKey'
  BY <1>1, ResultKept DEF SerialPrefix, ResultPending, TypeOK
<1>6. SlotsFull'
  <2>1. Open = launched /\ OuterParallelism \in Nat
    BY <1>1, OuterParallelismBound, TasksFacts DEF SlotsFull, Open
  <2>. QED BY <1>1, <1>2, <2>1 DEF SlotsFull
<1>. QED BY <1>3, <1>4, <1>5, <1>6

\* A composite task that ends moves from the pool to the channel.
LEMMA RunCompositeStep == ASSUME IInv, NEW key \in Keys, RunComposite(key) PROVE IInv'
<1>. USE DEF IInv
<1>. DEFINE answer == IF cancelFlag THEN "cancelled" ELSE fault[key]
            message == [key |-> key, answer |-> answer]
<1>1. /\ key \in running /\ running' = running \ {key}
      /\ returned' = IF answer \in {"ok", "error"} THEN returned \cup {key} ELSE returned
      /\ channel' = Append(channel, message)
      /\ UNCHANGED inputs /\ UNCHANGED <<cancelFlag, phase, launched, results, result>>
  BY DEF RunComposite
<1>2. /\ Tasks' = Tasks /\ OuterParallelism' = OuterParallelism /\ fault' = fault
      /\ composite' = composite /\ Open' = Open
      /\ keyOf' = keyOf /\ work' = work /\ parallelism' = parallelism
  BY <1>1, InputsFrame DEF Open
<1>3. /\ answer \in Answers /\ message \in Messages /\ key \in Tasks
      /\ answer = fault[key] \/ (answer = "cancelled" /\ cancelFlag)
  BY <1>1 DEF TypeOK, Answers, Messages
<1>4. message.key = key /\ message.answer = answer
  OBVIOUS
<1>. HIDE DEF answer, message
<1>5. /\ channel' \in Seq(Messages) /\ Queued' = Append(Queued, key)
      /\ \A i \in 1..Len(channel') :
            channel'[i] = message \/ \E j \in 1..Len(channel) : channel'[i] = channel[j]
  BY <1>1, <1>3, <1>4, QueuedSend DEF TypeOK
<1>6. TypeOK'
  BY <1>1, <1>2, <1>3, <1>5 DEF TypeOK
<1>7. OnePlaceEach'
  <2>1. key \notin ToSet(Queued) /\ Queued \in Seq(Keys)
    BY <1>1, QueuedFacts DEF OnePlaceEach, TypeOK
  <2>2. ToSet(Queued') = ToSet(Queued) \cup {key} /\ IsInjective(Queued')
    BY <1>5, <2>1, ToSetAppend DEF OnePlaceEach
  <2>. QED BY <1>1, <1>2, <2>1, <2>2 DEF OnePlaceEach
<1>8. AnswersTruthful'
  <2>1. fault' = fault /\ returned \subseteq returned' /\ cancelFlag' = cancelFlag
    BY <1>1, <1>2
  <2>2. \A k \in DOMAIN results' : Truthful(k, results[k])'
    BY <1>1, <2>1 DEF AnswersTruthful, Truthful
  <2>3. \A i \in 1..Len(channel') : Truthful(channel[i].key, channel[i].answer)'
    <3>. SUFFICES ASSUME NEW i \in 1..Len(channel')
                  PROVE  Truthful(channel[i].key, channel[i].answer)'
      OBVIOUS
    <3>1. CASE channel'[i] = message
      BY <1>1, <1>3, <1>4, <2>1, <3>1 DEF Truthful
    <3>2. ASSUME NEW j \in 1..Len(channel), channel'[i] = channel[j]
          PROVE  Truthful(channel[i].key, channel[i].answer)'
      BY <2>1, <3>2 DEF AnswersTruthful, Truthful
    <3>. QED BY <1>5, <3>1, <3>2
  <2>. QED BY <2>2, <2>3 DEF AnswersTruthful
<1>9. SerialPrefix' /\ SlotsFull' /\ ResultPending'
  BY <1>1, <1>2 DEF SerialPrefix, SlotsFull, ResultPending
<1>10. ResultByKey'
  BY <1>1, <1>2, <1>6, ResultKept DEF TypeOK
<1>. QED BY <1>6, <1>7, <1>8, <1>9, <1>10

\* An answer frees a slot, which is refilled at once if a task is left.
LEMMA ReceiveStep == ASSUME IInv, Receive PROVE IInv'
<1>. USE DEF IInv
<1>. DEFINE head == Head(channel)
            freed == head.key
<1>1. /\ phase = "recv" /\ channel # <<>> /\ channel' = Tail(channel)
      /\ results' = [k \in DOMAIN results \cup {freed} |->
                        IF k = freed THEN head.answer ELSE results[k]]
      /\ UNCHANGED inputs /\ UNCHANGED <<cancelFlag, phase, returned, result>>
  BY DEF Receive
<1>2. \/ launched = Tasks /\ UNCHANGED <<launched, running>>
      \/ \E key \in Tasks \ launched :
            /\ launched' = launched \cup {key} /\ running' = running \cup {key}
  BY DEF Receive, Refill, Launch, NextInLaunchOrder
<1>3. /\ Tasks' = Tasks /\ OuterParallelism' = OuterParallelism /\ fault' = fault
      /\ composite' = composite /\ cancelFlag' = cancelFlag /\ returned' = returned
      /\ keyOf' = keyOf /\ work' = work /\ parallelism' = parallelism
  BY <1>1, InputsFrame
<1>4. /\ channel' \in Seq(Messages) /\ Queued' = Tail(Queued)
      /\ Queued # <<>> /\ Head(Queued) = freed
      /\ head \in Messages /\ 1 \in 1..Len(channel) /\ head = channel[1]
      /\ \A i \in 1..Len(channel') : i + 1 \in 1..Len(channel) /\ channel'[i] = channel[i + 1]
  BY <1>1, QueuedReceive DEF TypeOK
<1>5. /\ freed \in Keys /\ head.answer \in Answers
      /\ Truthful(freed, head.answer)
  BY <1>4 DEF Messages, AnswersTruthful
<1>. HIDE DEF head, freed
<1>6. /\ ToSet(Queued) = ToSet(Queued') \cup {freed} /\ freed \notin ToSet(Queued')
      /\ IsInjective(Queued')
  BY <1>4, QueuedFacts, ToSetTail DEF TypeOK, OnePlaceEach
<1>7. /\ DOMAIN results' = DOMAIN results \cup {freed} /\ results' \in [DOMAIN results' -> Answers]
      /\ results'[freed] = head.answer
      /\ \A k \in DOMAIN results : k # freed => results'[k] = results[k]
  BY <1>1, <1>5, AnswerKept
<1>8. freed \in Open /\ freed \notin running
  BY <1>6 DEF OnePlaceEach
<1>9. AnswersTruthful'
  <2>1. \A k \in DOMAIN results' : Truthful(k, results[k])'
    BY <1>3, <1>5, <1>7 DEF AnswersTruthful, Truthful
  <2>2. \A i \in 1..Len(channel') : Truthful(channel[i].key, channel[i].answer)'
    BY <1>3, <1>4 DEF AnswersTruthful, Truthful
  <2>. QED BY <2>1, <2>2 DEF AnswersTruthful
<1>10. SerialPrefix' /\ ResultPending' /\ ResultByKey'
  BY <1>1, ResultKept DEF SerialPrefix, ResultPending, TypeOK
<1>11. /\ OuterParallelism \in Nat /\ IsFiniteSet(Open) /\ Cardinality(Open) \in Nat
       /\ Cardinality(Open) <= OuterParallelism
       /\ launched # Tasks => Cardinality(Open) = OuterParallelism
       /\ Cardinality(Open \ {freed}) = Cardinality(Open) - 1
  BY <1>1, <1>8, OuterParallelismBound, TasksFacts, OpenCount, CountOne DEF SlotsFull
<1>12. CASE launched = Tasks /\ UNCHANGED <<launched, running>>
  <2>1. Open' = Open \ {freed} /\ launched' = Tasks'
    BY <1>3, <1>7, <1>12 DEF Open
  <2>2. TypeOK'
    BY <1>1, <1>3, <1>4, <1>7, <1>12 DEF TypeOK
  <2>3. OnePlaceEach'
    BY <1>6, <1>7, <1>8, <1>12, <2>1 DEF OnePlaceEach, Open
  <2>4. Cardinality(Open') <= OuterParallelism
    BY <1>11, <2>1
  <2>5. SlotsFull'
    BY <1>1, <1>3, <2>1, <2>4 DEF SlotsFull
  <2>. QED BY <1>9, <1>10, <2>2, <2>3, <2>5
<1>13. ASSUME NEW key \in Tasks \ launched,
              launched' = launched \cup {key}, running' = running \cup {key}
       PROVE  IInv'
  <2>1. Open' = (Open \ {freed}) \cup {key} /\ key \notin Open /\ key # freed
    BY <1>7, <1>8, <1>13 DEF Open, OnePlaceEach
  <2>2. TypeOK'
    BY <1>1, <1>3, <1>4, <1>7, <1>13 DEF TypeOK
  <2>3. OnePlaceEach'
    <3>1. DOMAIN results' \subseteq launched'
      BY <1>7, <1>8, <1>13 DEF OnePlaceEach, Open
    <3>2. Open' = running' \cup ToSet(Queued') /\ running' \cap ToSet(Queued') = {}
      BY <1>6, <1>8, <1>13, <2>1 DEF OnePlaceEach
    <3>. QED BY <1>6, <3>1, <3>2 DEF OnePlaceEach
  <2>4. Cardinality(Open') = OuterParallelism
    <3>1. IsFiniteSet(Open \ {freed}) /\ key \notin Open \ {freed}
      BY <1>11, <2>1, FS_Subset
    <3>2. Cardinality(Open') = Cardinality(Open \ {freed}) + 1
      BY <2>1, <3>1, CountOne
    <3>. QED BY <1>11, <1>13, <3>2
  <2>5. SlotsFull'
    BY <1>1, <1>3, <1>11, <2>4 DEF SlotsFull
  <2>. QED BY <1>9, <1>10, <2>2, <2>3, <2>5
<1>. QED BY <1>2, <1>12, <1>13

\* A parallel task starts, or is answered by the flag.
LEMMA StartParallelStep == ASSUME IInv, NEW key \in Keys, StartParallel(key) PROVE IInv'
<1>. USE DEF IInv
<1>1. /\ phase = "par" /\ key \in Tasks \ launched /\ launched' = launched \cup {key}
      /\ UNCHANGED inputs /\ UNCHANGED <<cancelFlag, phase, channel, returned, result>>
  BY DEF StartParallel
<1>2. /\ Tasks' = Tasks /\ OuterParallelism' = OuterParallelism /\ fault' = fault
      /\ composite' = composite /\ Queued' = Queued /\ cancelFlag' = cancelFlag
      /\ keyOf' = keyOf /\ work' = work /\ parallelism' = parallelism
  BY <1>1, InputsFrame DEF Queued
<1>3. key \notin DOMAIN results /\ key \notin Open
  BY <1>1 DEF OnePlaceEach, Open
<1>4. SerialPrefix' /\ SlotsFull' /\ ResultPending' /\ ResultByKey'
  BY <1>1, <1>2, ResultKept DEF SerialPrefix, SlotsFull, ResultPending, TypeOK
<1>5. CASE /\ cancelFlag /\ UNCHANGED running
           /\ results' = [k \in DOMAIN results \cup {key} |->
                             IF k = key THEN "cancelled" ELSE results[k]]
  <2>1. /\ DOMAIN results' = DOMAIN results \cup {key} /\ results' \in [DOMAIN results' -> Answers]
        /\ results'[key] = "cancelled"
        /\ \A k \in DOMAIN results : k # key => results'[k] = results[k]
    BY <1>5, AnswerKept DEF Answers
  <2>2. TypeOK'
    BY <1>1, <1>2, <1>5, <2>1 DEF TypeOK
  <2>3. OnePlaceEach'
    BY <1>1, <1>2, <1>3, <1>5, <2>1 DEF OnePlaceEach, Open
  <2>4. AnswersTruthful'
    BY <1>1, <1>2, <1>5, <2>1 DEF AnswersTruthful, Truthful
  <2>. QED BY <1>4, <2>2, <2>3, <2>4
<1>6. CASE running' = running \cup {key} /\ UNCHANGED results
  <2>1. TypeOK'
    BY <1>1, <1>2, <1>6 DEF TypeOK
  <2>2. OnePlaceEach'
    <3>1. Open' = Open \cup {key}
      BY <1>1, <1>3, <1>6 DEF Open
    <3>. QED BY <1>1, <1>2, <1>3, <1>6, <3>1 DEF OnePlaceEach
  <2>3. AnswersTruthful'
    BY <1>1, <1>2, <1>6 DEF AnswersTruthful, Truthful
  <2>. QED BY <1>4, <2>1, <2>2, <2>3
<1>. QED BY <1>5, <1>6 DEF StartParallel

\* A parallel task ends.
LEMMA EndParallelStep == ASSUME IInv, NEW key \in Keys, EndParallel(key) PROVE IInv'
<1>. USE DEF IInv
<1>1. /\ phase = "par" /\ key \in running /\ running' = running \ {key}
      /\ results' = [k \in DOMAIN results \cup {key} |->
                        IF k = key THEN fault[key] ELSE results[k]]
      /\ returned' = IF fault[key] = "panic" THEN returned ELSE returned \cup {key}
      /\ UNCHANGED inputs /\ UNCHANGED <<cancelFlag, phase, launched, channel, result>>
  BY DEF EndParallel
<1>2. /\ Tasks' = Tasks /\ OuterParallelism' = OuterParallelism /\ fault' = fault
      /\ composite' = composite /\ Queued' = Queued /\ cancelFlag' = cancelFlag
      /\ keyOf' = keyOf /\ work' = work /\ parallelism' = parallelism
  BY <1>1, InputsFrame DEF Queued
<1>3. key \in Open /\ key \notin ToSet(Queued) /\ key \in Tasks
  BY <1>1 DEF OnePlaceEach, TypeOK
<1>4. /\ fault[key] \in Answers
      /\ DOMAIN results' = DOMAIN results \cup {key} /\ results' \in [DOMAIN results' -> Answers]
      /\ results'[key] = fault[key]
      /\ \A k \in DOMAIN results : k # key => results'[k] = results[k]
  <2>1. fault[key] \in Answers
    BY DEF TypeOK, Answers
  <2>. QED BY <1>1, <2>1, AnswerKept
<1>5. TypeOK'
  BY <1>1, <1>2, <1>3, <1>4 DEF TypeOK
<1>6. OnePlaceEach'
  <2>1. Open' = Open \ {key}
    BY <1>1, <1>4 DEF Open
  <2>2. DOMAIN results' \subseteq launched'
    BY <1>1, <1>3, <1>4 DEF OnePlaceEach, Open
  <2>. QED BY <1>1, <1>2, <1>3, <2>1, <2>2 DEF OnePlaceEach
<1>7. AnswersTruthful'
  <2>1. returned \subseteq returned' /\ (fault[key] # "panic" => key \in returned')
    BY <1>1
  <2>2. \A k \in DOMAIN results' : Truthful(k, results[k])'
    BY <1>2, <1>4, <2>1 DEF AnswersTruthful, Truthful
  <2>3. \A i \in 1..Len(channel') : Truthful(channel[i].key, channel[i].answer)'
    BY <1>1, <1>2, <2>1 DEF AnswersTruthful, Truthful
  <2>. QED BY <2>2, <2>3 DEF AnswersTruthful
<1>8. SerialPrefix' /\ SlotsFull' /\ ResultPending'
  BY <1>1, <1>2 DEF SerialPrefix, SlotsFull, ResultPending
<1>9. ResultByKey'
  BY <1>1, <1>2, <1>5, ResultKept DEF TypeOK
<1>. QED BY <1>5, <1>6, <1>7, <1>8, <1>9

\* Every step keeps the inductive invariant.
LEMMA NextIInv == IInv /\ [Next]_vars => IInv'
<1>. SUFFICES ASSUME IInv, [Next]_vars PROVE IInv'
  OBVIOUS
<1>1. CASE UNCHANGED vars
  <2>1. /\ UNCHANGED inputs
        /\ UNCHANGED <<cancelFlag, phase, launched, running, channel, results, returned, result>>
    BY <1>1 DEF vars
  <2>2. /\ Tasks' = Tasks /\ OuterParallelism' = OuterParallelism /\ fault' = fault
        /\ composite' = composite /\ Queued' = Queued /\ Open' = Open
        /\ keyOf' = keyOf /\ work' = work /\ parallelism' = parallelism
    BY <2>1, InputsFrame DEF Queued, Open
  <2>3. TypeOK'
    BY <2>1, <2>2 DEF IInv, TypeOK
  <2>4. OnePlaceEach' /\ AnswersTruthful'
    BY <2>1, <2>2 DEF IInv, OnePlaceEach, AnswersTruthful, Truthful
  <2>5. SerialPrefix' /\ SlotsFull' /\ ResultPending'
    BY <2>1, <2>2 DEF IInv, SerialPrefix, SlotsFull, ResultPending
  <2>6. ResultByKey'
    BY <2>1, ResultKept DEF IInv, TypeOK
  <2>. QED BY <2>3, <2>4, <2>5, <2>6 DEF IInv
<1>2. CASE Coordinator
  BY <1>2, EnterStep, SerialTaskStep, SerialEndStep, FirstLaunchesStep, LaunchesDoneStep,
     ReceiveStep, CollectStep, JoinStep DEF Coordinator
<1>3. CASE Pool
  BY <1>3, RunCompositeStep, StartParallelStep, EndParallelStep DEF Pool
<1>. QED BY <1>1, <1>2, <1>3, CancelStep DEF Next, Returned

\* So it holds in every reachable state.
LEMMA Invariance == Spec => []IInv
BY InitIInv, NextIInv, PTL DEF Spec

-----------------------------------------------------------------------------
(***************************************************************************)
(* What follows from it.                                                   *)
(***************************************************************************)

\* map_ordered_composite never has more than the square root of the workers
\* open, keeps its slots full while tasks remain, and waits only for answers
\* that are on their way.
THEOREM MapOuterBounded == Spec => []OuterBounded
<1>1. IInv => OuterBounded
  <2>. SUFFICES ASSUME IInv, phase = "recv"
                PROVE  LET open == Cardinality(running) + Len(channel)
                       IN  /\ open * open <= parallelism \/ open <= 1
                           /\ Cardinality(launched) = open + Cardinality(DOMAIN results)
                           /\ launched # Tasks => open = OuterParallelism
    BY DEF OuterBounded
  <2>. DEFINE open == Cardinality(running) + Len(channel)
  <2>1. /\ open = Cardinality(Open) /\ open \in Nat
        /\ Cardinality(launched) = open + Cardinality(DOMAIN results)
    BY OpenCount DEF IInv
  <2>. HIDE DEF open
  <2>2. open <= OuterParallelism /\ (launched # Tasks => open = OuterParallelism)
    BY <2>1 DEF IInv, SlotsFull
  <2>3. open * open <= parallelism \/ open <= 1
    BY <2>1, <2>2, OuterParallelismBound, TasksFacts DEF IInv
  <2>. QED BY <2>1, <2>2, <2>3 DEF open
<1>. QED BY <1>1, Invariance, PTL

\* Completion order cannot change what the keyed schedulers return: the result
\* is the one the task keys determine.
THEOREM MapResultByKey == Spec => []ResultByKey
<1>1. IInv => ResultByKey
  BY DEF IInv
<1>. QED BY <1>1, Invariance, PTL
=============================================================================
