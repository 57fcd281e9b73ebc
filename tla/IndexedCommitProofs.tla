------------------------- MODULE IndexedCommitProofs ------------------------
(***************************************************************************)
(* Machine-checked proofs about IndexedCommit, for every number of items,  *)
(* every parallelism and thresholds, every assignment of faults, and every *)
(* order in which the workers answer.                                      *)
(***************************************************************************)
EXTENDS IndexedCommit, SequenceLemmas

Statuses == {"Pending", "Ok", "Cancelled", "Failed", "Panicked"}

\* The fields of a call have their types.
CallTypeOK ==
    /\ fault \in [Items -> FaultKinds]
    /\ parallelism \in Nat \ {0}
    /\ cancelFlag \in BOOLEAN
    /\ phase \in {"entry", "serial", "recv", "commit", "joining", "done"}
    /\ nextLaunch \in 0..ItemCount /\ nextCommit \in 0..ItemCount
    /\ analyzing \in SUBSET Items /\ waiting \in SUBSET Items
    /\ channel \in Seq(Items)
    /\ receiving \in BOOLEAN
    /\ batches \in Nat
    /\ result \in [status : Statuses, item : Int]

\* The launch window and where its items are: as many items above the next
\* commit as there are workers, each with its worker, in the channel or in
\* the map, and in one of them only.
WindowExact ==
    /\ Workers > 1
    /\ nextLaunch = IF nextCommit + Workers <= ItemCount THEN nextCommit + Workers ELSE ItemCount
    /\ analyzing \cup ToSet(channel) \cup waiting = nextCommit..nextLaunch - 1
    /\ analyzing \cap ToSet(channel) = {}
    /\ analyzing \cap waiting = {}
    /\ ToSet(channel) \cap waiting = {}
    /\ IsInjective(channel)

\* The receiver lives while the coordinator is in its loop, and the loop waits
\* only for an item it does not have.
LoopExact ==
    /\ receiving <=> phase \in {"recv", "commit"}
    /\ receiving => WindowExact
    /\ phase = "entry" => nextCommit = 0 /\ waiting = {} /\ channel = <<>>
    /\ phase = "recv" => nextCommit < ItemCount /\ nextCommit \notin waiting

\* Everything below the next commit succeeded and was committed in order.
PrefixExact ==
    /\ committed = [k \in 1..nextCommit |-> k - 1]
    /\ \A i \in Items : i < nextCommit => FailureStatus(i) = "none"

\* What the call is about to return.
ResultExact ==
    /\ phase \in {"entry", "serial", "recv", "commit"} => result.status = "Pending"
    /\ phase = "joining" /\ result.status = "Pending" => nextCommit = ItemCount
    /\ result.status = "Ok" => nextCommit = ItemCount
    /\ result.status \in {"Failed", "Panicked"} =>
           /\ nextCommit < ItemCount
           /\ result.item = nextCommit
           /\ result.status = FailureStatus(nextCommit)

IInv == CallTypeOK /\ LoopExact /\ PrefixExact /\ ResultExact

-----------------------------------------------------------------------------
(***************************************************************************)
(* Facts about the operators.                                              *)
(***************************************************************************)

\* Rounding a positive count up to whole workers gives no more than the count.
LEMMA DivCeilBound ==
  ASSUME NEW a \in Nat \ {0}, NEW b \in Nat \ {0}
  PROVE  DivCeil(a, b) \in Nat /\ DivCeil(a, b) <= a
<1>. DEFINE q == (a + b - 1) \div b
<1>1. q \in Int /\ b * q <= a + b - 1 /\ a + b - 1 < b * q + b
  OBVIOUS
<1>. HIDE DEF q
<1>2. q >= 0
  <2>1. ASSUME q <= -1 PROVE FALSE
    <3>1. b * q <= -b
      BY <1>1, <2>1
    <3>. QED BY <1>1, <3>1
  <2>. QED BY <1>1, <2>1
<1>3. q <= a
  <2>1. ASSUME q >= a + 1 PROVE FALSE
    <3>1. b * q >= b * (a + 1)
      BY <1>1, <2>1
    <3>2. b * (a + 1) = b * a + b /\ b * a >= a
      OBVIOUS
    <3>. QED BY <1>1, <3>1, <3>2
  <2>. QED BY <1>1, <2>1
<1>. QED BY <1>1, <1>2, <1>3 DEF q, DivCeil

\* There are never more workers than items.
LEMMA WorkersBound == CallTypeOK => Workers \in Nat /\ Workers <= ItemCount
<1>1. CASE ItemCount = 0
  BY <1>1 DEF Workers, IndexedWorkerCount
<1>2. CASE ItemCount # 0
  <2>1. /\ DivCeil(ItemCount, MinItemsPerWorker) \in Nat
        /\ DivCeil(ItemCount, MinItemsPerWorker) <= ItemCount
    BY <1>2, DivCeilBound, CountsAssumption
  <2>. QED BY <1>2, <2>1, CountsAssumption DEF CallTypeOK, Workers, IndexedWorkerCount
<1>. QED BY <1>1, <1>2

\* The numbers 0 .. n - 1 make a sequence; one more number extends it.
LEMMA AscendingAppend ==
  ASSUME NEW n \in Nat
  PROVE  Append([k \in 1..n |-> k - 1], n) = [k \in 1..n + 1 |-> k - 1]
<1>. DEFINE s == [k \in 1..n |-> k - 1]
            t == [k \in 1..n + 1 |-> k - 1]
<1>1. s \in Seq(Nat) /\ Len(s) = n
  <2>1. s \in [1..n -> Nat]
    OBVIOUS
  <2>. QED BY <2>1, SeqDef, LenProperties
<1>2. t \in Seq(Nat) /\ Len(t) = n + 1
  <2>1. t \in [1..n + 1 -> Nat] /\ n + 1 \in Nat
    OBVIOUS
  <2>. QED BY <2>1, SeqDef, LenProperties
<1>3. /\ Append(s, n) \in Seq(Nat) /\ Len(Append(s, n)) = n + 1
      /\ \A i \in 1..n : Append(s, n)[i] = i - 1
      /\ Append(s, n)[n + 1] = n
  BY <1>1, AppendProperties
<1>4. \A i \in 1..n + 1 : Append(s, n)[i] = t[i]
  BY <1>3
<1>. QED BY <1>2, <1>3, <1>4, SeqEqual

-----------------------------------------------------------------------------
(***************************************************************************)
(* The invariant.                                                          *)
(***************************************************************************)

\* The invariant holds before the call.
LEMMA InitIInv == Init => IInv
<1>. SUFFICES ASSUME Init PROVE IInv
  OBVIOUS
<1>1. CallTypeOK
  <2>1. channel \in Seq(Items)
    BY EmptySeq DEF Init
  <2>2. result \in [status : Statuses, item : Int]
    BY DEF Init, Statuses
  <2>3. cancelFlag \in BOOLEAN /\ receiving \in BOOLEAN
    BY DEF Init
  <2>4. fault \in [Items -> FaultKinds] /\ parallelism \in Nat \ {0}
    BY CountsAssumption, FaultsAssumption DEF Init
  <2>5. nextLaunch \in 0..ItemCount /\ nextCommit \in 0..ItemCount /\ batches \in Nat
    BY CountsAssumption DEF Init
  <2>. QED BY <2>1, <2>2, <2>3, <2>4, <2>5 DEF Init, CallTypeOK
<1>2. LoopExact
  BY DEF Init, LoopExact
<1>4. ResultExact
  BY DEF Init, ResultExact
<1>3. PrefixExact
  <2>1. <<>> = [k \in 1..0 |-> k - 1]
    OBVIOUS
  <2>2. \A i \in Items : ~(i < 0)
    BY CountsAssumption DEF Items
  <2>. QED BY <2>1, <2>2 DEF Init, PrefixExact
<1>. QED BY <1>1, <1>2, <1>3, <1>4 DEF IInv

\* The fault map and the handle are read only, so is what they determine.
LEMMA InputsFrame ==
  ASSUME UNCHANGED <<fault, parallelism>>
  PROVE  Workers' = Workers /\ \A i : FailureStatus(i)' = FailureStatus(i)
BY DEF Workers, FailureStatus

\* An item's failure status, by its fault.
LEMMA FailureStatusType ==
  ASSUME CallTypeOK, NEW i \in Items
  PROVE  FailureStatus(i) \in {"none", "Failed", "Panicked"}
BY DEF CallTypeOK, FailureStatus, FaultKinds

\* cancel() changes nothing else.
LEMMA CancelStep == ASSUME IInv, Cancel PROVE IInv'
BY InputsFrame DEF IInv, Cancel, CallTypeOK, LoopExact, WindowExact, PrefixExact, ResultExact

\* Entering launches one item per worker.
LEMMA EnterStep == ASSUME IInv, Enter PROVE IInv'
<1>1. /\ CallTypeOK /\ phase = "entry" /\ ~receiving
      /\ UNCHANGED <<fault, parallelism, cancelFlag, nextCommit, channel, waiting, committed, batches>>
  BY DEF IInv, LoopExact, Enter
<1>2. PrefixExact'
  BY <1>1, InputsFrame DEF IInv, PrefixExact
<1>3. CASE phase' \in {"done", "serial"}
  <2>1. UNCHANGED <<nextLaunch, analyzing, receiving>>
    BY <1>3 DEF Enter
  <2>2. CallTypeOK'
    BY <1>1, <1>3, <2>1 DEF Enter, CallTypeOK, Returns, Statuses
  <2>3. LoopExact' /\ ResultExact'
    BY <1>1, <1>3, <2>1 DEF Enter, IInv, LoopExact, ResultExact, Returns
  <2>. QED BY <1>2, <2>2, <2>3 DEF IInv
<1>4. CASE phase' = "recv"
  <2>1. /\ Workers > 1 /\ analyzing' = 0..Workers - 1 /\ nextLaunch' = Workers
        /\ receiving' = TRUE /\ result' = result
    BY <1>4 DEF Enter
  <2>2. nextCommit = 0 /\ waiting = {} /\ channel = <<>>
    BY <1>1 DEF IInv, LoopExact
  <2>3. ItemCount \in Nat /\ Workers \in Nat /\ Workers <= ItemCount /\ Workers' = Workers
    BY <1>1, WorkersBound, CountsAssumption, InputsFrame
  <2>4. CallTypeOK'
    BY <1>1, <1>4, <2>1, <2>3 DEF CallTypeOK, Items
  <2>5. WindowExact'
    BY <1>1, <2>1, <2>2, <2>3, ToSetEmpty DEF WindowExact
  <2>6. LoopExact' /\ ResultExact'
    BY <1>1, <1>4, <2>1, <2>2, <2>3, <2>5 DEF IInv, LoopExact, ResultExact
  <2>. QED BY <1>2, <2>4, <2>6 DEF IInv
<1>. QED BY <1>3, <1>4 DEF Enter

\* The serial path commits the next item or stops.
LEMMA SerialStep == ASSUME IInv, SerialItem \/ SerialEnd PROVE IInv'
<1>1. /\ CallTypeOK /\ phase = "serial" /\ ~receiving
      /\ UNCHANGED <<fault, parallelism, cancelFlag, nextLaunch, analyzing, channel, receiving, waiting>>
      /\ ItemCount \in Nat
  BY CountsAssumption DEF IInv, LoopExact, SerialItem, SerialEnd
<1>2. CASE SerialItem /\ phase' = phase
  <2>1. /\ nextCommit \in Items /\ FailureStatus(nextCommit) = "none"
        /\ committed' = Append(committed, nextCommit) /\ nextCommit' = nextCommit + 1
        /\ UNCHANGED <<phase, result, batches>>
    BY <1>1, <1>2 DEF SerialItem, Analysis, CallTypeOK, Items
  <2>2. CallTypeOK'
    BY <1>1, <2>1 DEF CallTypeOK, Items
  <2>3. PrefixExact'
    <3>1. committed' = [k \in 1..nextCommit' |-> k - 1]
      BY <2>1, AscendingAppend DEF IInv, PrefixExact, Items
    <3>2. \A i \in Items : i < nextCommit' => FailureStatus(i) = "none"
      BY <2>1, <1>1 DEF IInv, PrefixExact, CallTypeOK, Items
    <3>. QED BY <1>1, <3>1, <3>2, InputsFrame DEF PrefixExact
  <2>4. LoopExact' /\ ResultExact'
    BY <1>1, <2>1 DEF IInv, LoopExact, ResultExact
  <2>. QED BY <2>2, <2>3, <2>4 DEF IInv
<1>3. CASE phase' = "done"
  <2>1. UNCHANGED <<committed, nextCommit>> /\ batches' \in Nat
    BY <1>1, <1>3 DEF SerialItem, SerialEnd, Finished, CallTypeOK
  <2>2. PrefixExact'
    BY <1>1, <2>1, InputsFrame DEF IInv, PrefixExact
  <2>3. LoopExact'
    BY <1>1, <1>3, <2>1 DEF IInv, LoopExact
  <2>4. \/ result' = [status |-> "Cancelled", item |-> -1]
        \/ result' = [status |-> "Ok", item |-> -1] /\ nextCommit = ItemCount
        \/ /\ result' = [status |-> FailureStatus(nextCommit), item |-> nextCommit]
           /\ nextCommit \in Items /\ FailureStatus(nextCommit) # "none"
    BY <1>1, <1>3 DEF SerialItem, SerialEnd, Finished, Returns, CallTypeOK, Items
  <2>5. result' \in [status : Statuses, item : Int]
    BY <1>1, <2>4, FailureStatusType DEF Statuses, Items
  <2>6. CallTypeOK'
    BY <1>1, <1>3, <2>1, <2>5 DEF CallTypeOK
  <2>7. ResultExact'
    <3>1. FailureStatus(nextCommit)' = FailureStatus(nextCommit)
      BY <1>1, <2>1, InputsFrame
    <3>2. FailureStatus(nextCommit) # "none" /\ nextCommit \in Items =>
              FailureStatus(nextCommit) \in {"Failed", "Panicked"} /\ nextCommit < ItemCount
      BY <1>1, FailureStatusType DEF Items
    <3>. QED BY <1>3, <2>1, <2>4, <3>1, <3>2 DEF ResultExact
  <2>. QED BY <2>2, <2>3, <2>6, <2>7 DEF IInv
<1>. QED BY <1>2, <1>3 DEF SerialItem, SerialEnd

\* A send moves an item from its worker to the channel, or drops the answer.
LEMMA SendStep == ASSUME IInv, NEW item \in Items, Send(item) PROVE IInv'
<1>1. /\ CallTypeOK /\ item \in analyzing /\ analyzing' = analyzing \ {item}
      /\ UNCHANGED <<fault, parallelism, cancelFlag, phase, nextLaunch, nextCommit, receiving,
                     waiting, committed, batches, result>>
  BY DEF IInv, Send
<1>2. PrefixExact' /\ ResultExact'
  BY <1>1, InputsFrame DEF IInv, PrefixExact, ResultExact
<1>3. CASE receiving
  <2>1. channel' = Append(channel, item)
    BY <1>3 DEF Send
  <2>2. WindowExact
    BY <1>3 DEF IInv, LoopExact
  <2>3. /\ channel' \in Seq(Items) /\ ToSet(channel') = ToSet(channel) \cup {item}
        /\ IsInjective(channel')
    BY <1>1, <2>1, <2>2, ToSetAppend, AppendProperties DEF CallTypeOK, WindowExact
  <2>4. CallTypeOK'
    BY <1>1, <2>3 DEF CallTypeOK
  <2>5. WindowExact'
    BY <1>1, <2>2, <2>3, InputsFrame DEF WindowExact
  <2>6. LoopExact'
    BY <1>1, <1>3, <2>5 DEF IInv, LoopExact
  <2>. QED BY <1>2, <2>4, <2>6 DEF IInv
<1>4. CASE ~receiving
  <2>1. channel' = channel
    BY <1>4 DEF Send
  <2>2. CallTypeOK' /\ LoopExact'
    BY <1>1, <1>4, <2>1 DEF IInv, CallTypeOK, LoopExact
  <2>. QED BY <1>2, <2>2 DEF IInv
<1>. QED BY <1>3, <1>4

\* A receive moves an item from the channel to the map.
LEMMA ReceiveStep == ASSUME IInv, Receive PROVE IInv'
<1>1. /\ CallTypeOK /\ phase = "recv" /\ phase' = "commit" /\ channel # <<>>
      /\ waiting' = waiting \cup {Head(channel)} /\ channel' = Tail(channel)
      /\ UNCHANGED <<fault, parallelism, cancelFlag, nextLaunch, nextCommit, analyzing, receiving,
                     committed, batches, result>>
  BY DEF IInv, Receive
<1>2. receiving /\ WindowExact
  BY <1>1 DEF IInv, LoopExact
<1>3. /\ channel' \in Seq(Items) /\ Head(channel) \in Items
      /\ ToSet(channel) = ToSet(channel') \cup {Head(channel)}
      /\ Head(channel) \notin ToSet(channel') /\ IsInjective(channel')
  BY <1>1, <1>2, ToSetTail, HeadTailProperties DEF CallTypeOK, WindowExact
<1>4. CallTypeOK'
  BY <1>1, <1>3 DEF CallTypeOK
<1>5. WindowExact'
  BY <1>1, <1>2, <1>3, InputsFrame DEF WindowExact
<1>6. LoopExact' /\ ResultExact'
  BY <1>1, <1>2, <1>5, InputsFrame DEF IInv, LoopExact, ResultExact
<1>7. PrefixExact'
  BY <1>1, InputsFrame DEF IInv, PrefixExact
<1>. QED BY <1>4, <1>6, <1>7 DEF IInv

\* A commit slides the window by one item; a failure ends the loop.
LEMMA CommitStep == ASSUME IInv, CommitReady PROVE IInv'
<1>1. /\ CallTypeOK /\ phase = "commit" /\ nextCommit \in waiting
      /\ waiting' = waiting \ {nextCommit}
      /\ UNCHANGED <<fault, parallelism, cancelFlag, channel, batches>>
  BY DEF IInv, CommitReady, NextReady
<1>2. receiving /\ WindowExact /\ nextCommit \in Items /\ ItemCount \in Nat
  BY <1>1, CountsAssumption DEF IInv, LoopExact, CallTypeOK
<1>3. CASE FailureStatus(nextCommit) # "none"
  <2>1. /\ result' = [status |-> FailureStatus(nextCommit), item |-> nextCommit]
        /\ phase' = "joining" /\ receiving' = FALSE
        /\ UNCHANGED <<committed, nextCommit, analyzing, nextLaunch>>
    BY <1>3 DEF CommitReady, NextReady, Returns
  <2>2. FailureStatus(nextCommit) \in {"Failed", "Panicked"}
    BY <1>1, <1>2, <1>3, FailureStatusType
  <2>3. FailureStatus(nextCommit)' = FailureStatus(nextCommit)
    BY <1>1, <2>1, InputsFrame
  <2>4. result' \in [status : Statuses, item : Int]
    BY <1>2, <2>1, <2>2 DEF Statuses, Items
  <2>5. CallTypeOK'
    BY <1>1, <2>1, <2>4 DEF CallTypeOK
  <2>6. LoopExact'
    BY <2>1 DEF LoopExact
  <2>7. PrefixExact'
    BY <1>1, <2>1, InputsFrame DEF IInv, PrefixExact
  <2>8. ResultExact'
    BY <1>2, <2>1, <2>2, <2>3 DEF ResultExact, Items
  <2>. QED BY <2>5, <2>6, <2>7, <2>8 DEF IInv
<1>4. CASE FailureStatus(nextCommit) = "none"
  <2>1. /\ committed' = Append(committed, nextCommit) /\ nextCommit' = nextCommit + 1
        /\ LaunchNext
        /\ UNCHANGED <<phase, receiving, result>>
    BY <1>4 DEF CommitReady, NextReady, Analysis
  <2>2. Workers \in Nat /\ Workers' = Workers
    BY <1>1, WorkersBound, InputsFrame
  <2>3. nextLaunch \in 0..ItemCount /\ nextCommit \in 0..ItemCount - 1
    BY <1>1, <1>2 DEF CallTypeOK, Items
  <2>4. CallTypeOK'
    <3>1. nextLaunch' \in 0..ItemCount /\ nextCommit' \in 0..ItemCount
      BY <1>2, <2>1, <2>3 DEF LaunchNext
    <3>2. analyzing' \in SUBSET Items
      <4>1. analyzing \in SUBSET Items
        BY <1>1 DEF CallTypeOK
      <4>2. CASE nextLaunch < ItemCount
        <5>1. nextLaunch \in Items /\ analyzing' = analyzing \cup {nextLaunch}
          BY <1>2, <2>1, <2>3, <4>2 DEF LaunchNext, Items
        <5>. QED BY <4>1, <5>1
      <4>3. CASE ~(nextLaunch < ItemCount)
        BY <2>1, <4>1, <4>3 DEF LaunchNext
      <4>. QED BY <4>2, <4>3
    <3>. QED BY <1>1, <2>1, <3>1, <3>2 DEF CallTypeOK
  <2>5. WindowExact'
    <3>1. nextLaunch' = IF nextCommit' + Workers <= ItemCount
                        THEN nextCommit' + Workers ELSE ItemCount
      BY <1>2, <2>1, <2>2, <2>3 DEF WindowExact, LaunchNext
    <3>2. analyzing' = analyzing \cup (nextLaunch..nextLaunch' - 1)
      BY <2>1, <2>3 DEF LaunchNext
    <3>3. nextLaunch <= nextLaunch' /\ nextCommit < nextLaunch
      BY <1>2, <2>1, <2>2, <2>3 DEF WindowExact, LaunchNext
    <3>4. analyzing' \cup ToSet(channel') \cup waiting' = nextCommit'..nextLaunch' - 1
      <4>1. analyzing \cup ToSet(channel) \cup waiting = nextCommit..nextLaunch - 1
        BY <1>2 DEF WindowExact
      <4>2. analyzing \cup ToSet(channel) \cup waiting' = nextCommit + 1..nextLaunch - 1
        <5>1. nextCommit \notin analyzing \cup ToSet(channel)
          BY <1>1, <1>2 DEF WindowExact
        <5>. QED BY <4>1, <5>1, <1>1, <2>3, <3>3
      <4>3. (nextCommit + 1..nextLaunch - 1) \cup (nextLaunch..nextLaunch' - 1)
                = nextCommit + 1..nextLaunch' - 1
        BY <2>3, <2>4, <3>3 DEF CallTypeOK
      <4>. QED BY <4>2, <4>3, <3>2, <1>1, <2>1
    <3>5. \A i \in nextLaunch..nextLaunch' - 1 : i \notin ToSet(channel) \cup waiting
      BY <1>2, <2>3 DEF WindowExact
    <3>. QED BY <1>1, <1>2, <2>2, <3>1, <3>2, <3>4, <3>5 DEF WindowExact
  <2>6. LoopExact'
    BY <1>1, <1>2, <2>1, <2>5 DEF IInv, LoopExact
  <2>7. PrefixExact'
    <3>1. committed' = [k \in 1..nextCommit' |-> k - 1]
      BY <1>2, <2>1, AscendingAppend DEF IInv, PrefixExact, Items
    <3>2. \A i \in Items : i < nextCommit' => FailureStatus(i) = "none"
      BY <1>4, <2>1, <2>3 DEF IInv, PrefixExact, Items
    <3>. QED BY <1>1, <3>1, <3>2, InputsFrame DEF PrefixExact
  <2>8. ResultExact'
    BY <1>1, <2>1 DEF IInv, ResultExact
  <2>. QED BY <2>4, <2>6, <2>7, <2>8 DEF IInv
<1>. QED BY <1>3, <1>4

\* The inner loop ends at an item that has not arrived, or after the last one.
LEMMA GapStep == ASSUME IInv, Gap PROVE IInv'
<1>1. /\ CallTypeOK /\ phase = "commit" /\ nextCommit \notin waiting /\ receiving /\ WindowExact
      /\ UNCHANGED <<fault, parallelism, cancelFlag, nextLaunch, nextCommit, analyzing, channel,
                     waiting, committed, batches, result>>
      /\ nextCommit \in 0..ItemCount /\ ItemCount \in Nat
  BY CountsAssumption DEF IInv, LoopExact, Gap, NextReady, CallTypeOK
<1>2. CallTypeOK'
  BY <1>1 DEF Gap, CallTypeOK
<1>3. WindowExact'
  BY <1>1, InputsFrame DEF WindowExact
<1>4. LoopExact'
  BY <1>1, <1>3 DEF Gap, LoopExact
<1>5. PrefixExact'
  BY <1>1, InputsFrame DEF IInv, PrefixExact
<1>6. ResultExact'
  <2>1. result.status = "Pending" /\ result' = result
    BY <1>1 DEF IInv, ResultExact
  <2>2. phase' = "joining" => nextCommit' = ItemCount
    BY <1>1 DEF Gap
  <2>. QED BY <2>1, <2>2 DEF ResultExact
<1>. QED BY <1>2, <1>4, <1>5, <1>6 DEF IInv

\* The scope ends: a call without a failure has committed everything.
LEMMA JoinStep == ASSUME IInv, Join PROVE IInv'
<1>1. /\ CallTypeOK /\ phase = "joining" /\ phase' = "done" /\ ~receiving
      /\ UNCHANGED <<fault, parallelism, cancelFlag, nextLaunch, nextCommit, analyzing, channel,
                     receiving, waiting, committed>>
  BY DEF IInv, LoopExact, Join
<1>2. LoopExact'
  BY <1>1 DEF LoopExact
<1>3. PrefixExact'
  BY <1>1, InputsFrame DEF IInv, PrefixExact
<1>4. CASE result.status = "Pending"
  <2>1. /\ result' = [status |-> "Ok", item |-> -1] /\ nextCommit = ItemCount
        /\ batches' \in Nat
    BY <1>1, <1>4 DEF IInv, ResultExact, Join, Finished, Returns, CallTypeOK
  <2>2. CallTypeOK'
    BY <1>1, <2>1 DEF CallTypeOK, Statuses
  <2>3. ResultExact'
    BY <1>1, <2>1 DEF ResultExact
  <2>. QED BY <1>2, <1>3, <2>2, <2>3 DEF IInv
<1>5. CASE result.status # "Pending"
  <2>1. UNCHANGED <<result, batches>>
    BY <1>5 DEF Join
  <2>2. CallTypeOK'
    BY <1>1, <2>1 DEF CallTypeOK
  <2>3. FailureStatus(nextCommit)' = FailureStatus(nextCommit)
    BY <1>1, InputsFrame
  <2>4. ResultExact'
    BY <1>1, <2>1, <2>3 DEF IInv, ResultExact
  <2>. QED BY <1>2, <1>3, <2>2, <2>4 DEF IInv
<1>. QED BY <1>4, <1>5

\* Every step keeps the inductive invariant.
LEMMA NextIInv == IInv /\ [Next]_vars => IInv'
<1>. SUFFICES ASSUME IInv, [Next]_vars PROVE IInv'
  OBVIOUS
<1>1. CASE UNCHANGED vars
  BY <1>1, InputsFrame DEF vars, IInv, CallTypeOK, LoopExact, WindowExact, PrefixExact,
     ResultExact, FailureStatus
<1>2. CASE \E item \in Items : Send(item)
  BY <1>2, SendStep
<1>. QED BY <1>1, <1>2, CancelStep, EnterStep, SerialStep, ReceiveStep, CommitStep, GapStep,
             JoinStep DEF Next, Returned

\* So it holds in every reachable state.
LEMMA Invariance == Spec => []IInv
BY InitIInv, NextIInv, PTL DEF Spec

-----------------------------------------------------------------------------
(***************************************************************************)
(* What follows from it.                                                   *)
(***************************************************************************)

\* commit_indexed commits the ascending prefix a serial loop commits and
\* reports the failure a serial loop meets, whatever the number of workers and
\* the order of their answers.
THEOREM CommitSerialPrefix == Spec => []CommitsSerialPrefix
<1>1. IInv => CommitsSerialPrefix
  <2>. SUFFICES ASSUME IInv PROVE CommitsSerialPrefix
    OBVIOUS
  <2>. USE DEF IInv
  <2>1. /\ nextCommit \in 0..ItemCount /\ ItemCount \in Nat /\ Items \subseteq Int
        /\ \A i \in Items : i < ItemCount
    BY CountsAssumption DEF CallTypeOK, Items
  <2>2. ASSUME NEW i \in FirstFailure PROVE nextCommit <= i
    BY <2>1 DEF FirstFailure, PrefixExact
  <2>3. ASSUME nextCommit = ItemCount PROVE FirstFailure = {}
    BY <2>1, <2>3 DEF FirstFailure, PrefixExact
  <2>4. ASSUME nextCommit < ItemCount, FailureStatus(nextCommit) # "none"
        PROVE  nextCommit \in FirstFailure
    BY <2>1, <2>4 DEF FirstFailure, PrefixExact, Items
  <2>. QED BY <2>1, <2>2, <2>3, <2>4 DEF CommitsSerialPrefix, PrefixExact, ResultExact
<1>. QED BY <1>1, Invariance, PTL

\* The coordinator of commit_indexed never waits on the channel for an answer
\* nobody will send.
THEOREM CommitAnswerIsComing == Spec => []AnswerIsComing
<1>1. IInv => AnswerIsComing
  <2>. SUFFICES ASSUME IInv, phase = "recv"
                PROVE  nextCommit \in analyzing \/ \E k \in DOMAIN channel : channel[k] = nextCommit
    BY DEF AnswerIsComing
  <2>1. CallTypeOK /\ WindowExact /\ nextCommit < ItemCount /\ nextCommit \notin waiting
    BY DEF IInv, LoopExact
  <2>2. Workers \in Nat /\ nextCommit \in 0..ItemCount /\ ItemCount \in Nat
    BY <2>1, WorkersBound, CountsAssumption DEF CallTypeOK
  <2>3. nextCommit \in nextCommit..nextLaunch - 1
    BY <2>1, <2>2 DEF WindowExact
  <2>. QED BY <2>1, <2>3 DEF WindowExact, ToSet
<1>. QED BY <1>1, Invariance, PTL

\* The items in flight are counted once each and are never more than the
\* workers, so the bounded channel of commit_indexed never blocks a worker.
THEOREM CommitInFlightBounded == Spec => []InFlightBounded
<1>1. IInv => InFlightBounded
  <2>. SUFFICES ASSUME IInv, receiving
                PROVE  /\ nextLaunch - nextCommit =
                              Cardinality(analyzing) + Len(channel) + Cardinality(waiting)
                       /\ nextLaunch - nextCommit <= Workers
                       /\ nextCommit < ItemCount => nextCommit < nextLaunch
    BY DEF InFlightBounded
  <2>1. CallTypeOK /\ WindowExact
    BY DEF IInv, LoopExact
  <2>2. /\ Workers \in Nat /\ nextCommit \in 0..ItemCount /\ nextLaunch \in 0..ItemCount
        /\ ItemCount \in Nat
    BY <2>1, WorkersBound, CountsAssumption DEF CallTypeOK
  <2>3. nextCommit <= nextLaunch /\ nextLaunch - nextCommit <= Workers
        /\ (nextCommit < ItemCount => nextCommit < nextLaunch)
    BY <2>1, <2>2 DEF WindowExact
  <2>4. /\ IsFiniteSet(nextCommit..nextLaunch - 1)
        /\ Cardinality(nextCommit..nextLaunch - 1) = nextLaunch - nextCommit
    <3>1. nextCommit \in Int /\ nextLaunch - 1 \in Int
      BY <2>2
    <3>2. /\ IsFiniteSet(nextCommit..nextLaunch - 1)
          /\ Cardinality(nextCommit..nextLaunch - 1) =
                 IF nextCommit > nextLaunch - 1 THEN 0 ELSE (nextLaunch - 1) - nextCommit + 1
      BY <3>1, FS_Interval
    <3>. QED BY <2>2, <2>3, <3>2
  <2>5. IsFiniteSet(analyzing) /\ IsFiniteSet(waiting)
    BY <2>1, <2>4, FS_Subset DEF WindowExact
  <2>6. IsFiniteSet(ToSet(channel)) /\ Cardinality(ToSet(channel)) = Len(channel)
    BY <2>1, ToSetCardinality DEF CallTypeOK, WindowExact
  <2>7. /\ IsFiniteSet(analyzing \cup ToSet(channel))
        /\ Cardinality(analyzing \cup ToSet(channel)) = Cardinality(analyzing) + Len(channel)
    BY <2>1, <2>5, <2>6, DisjointCardinality DEF WindowExact
  <2>8. Cardinality((analyzing \cup ToSet(channel)) \cup waiting)
            = Cardinality(analyzing) + Len(channel) + Cardinality(waiting)
    <3>1. (analyzing \cup ToSet(channel)) \cap waiting = {}
      BY <2>1 DEF WindowExact
    <3>. QED BY <2>5, <2>7, <3>1, DisjointCardinality
  <2>. QED BY <2>1, <2>3, <2>4, <2>8 DEF WindowExact
<1>. QED BY <1>1, Invariance, PTL
=============================================================================
