-------------------- MODULE ConstraintTransactionProofs ---------------------
(***************************************************************************)
(* Theorems about ConstraintTransaction for any number of names, values,   *)
(* objects, revisions and tokens, and any nesting of transactions.         *)
(***************************************************************************)
EXTENDS ConstraintTransaction, TLAPS, SequenceTheorems, NaturalsInduction,
        WellFoundedInduction

-----------------------------------------------------------------------------
(***************************************************************************)
(* The journal.                                                            *)
(***************************************************************************)

\* A nonempty set of record numbers has an oldest one.
LEMMA OldestExists ==
  ASSUME NEW at \in SUBSET Nat, at # {}
  PROVE  Oldest(at) \in at /\ \A m \in at : Oldest(at) <= m
<1>1. \E n \in at : \A m \in at : n <= m
  <2>1. PICK n \in at : \A m \in at : ~(<<m, n>> \in OpToRel(<, Nat))
    BY NatLessThanWellFounded, WFMin
  <2>2. ASSUME NEW m \in at, m < n PROVE FALSE
    <3>1. <<m, n>> \in OpToRel(<, Nat)
      BY <2>2 DEF OpToRel
    <3>. QED BY <2>1, <3>1, Zenon
  <2>. QED BY <2>2
<1>. QED BY <1>1 DEF Oldest

\* The oldest one is the one that is before all others.
LEMMA OldestUnique ==
  ASSUME NEW at \in SUBSET Nat, NEW n \in at, \A m \in at : n <= m
  PROVE  Oldest(at) = n
<1>1. Oldest(at) \in at /\ \A m \in at : Oldest(at) <= m
  BY OldestExists
<1>2. Oldest(at) <= n /\ n <= Oldest(at) /\ Oldest(at) \in Nat /\ n \in Nat
  BY <1>1
<1>. QED BY <1>2

\* What a record of the journal is.
LEMMA RecordFacts ==
  ASSUME NEW record \in RecordType
  PROVE  DOMAIN record \subseteq Keys /\ \A k \in DOMAIN record : record[k] \in RowType
<1>1. PICK owners \in SUBSET Keys : record \in [owners -> RowType]
  BY DEF RecordType
<1>. QED BY <1>1

\* The rows of some owners make a record.
LEMMA RecordOfRows ==
  ASSUME NEW owners \in SUBSET Keys, NEW current \in [Keys -> RowType]
  PROVE  [k \in owners |-> current[k]] \in RecordType
<1>1. [k \in owners |-> current[k]] \in [owners -> RowType]
  OBVIOUS
<1>. QED BY <1>1 DEF RecordType

\* Record numbers are positions of the journal.
LEMMA RecordsOfNat ==
  ASSUME NEW records \in Seq(RecordType), NEW length \in Nat, NEW key
  PROVE  RecordsOf(records, length, key) \in SUBSET (1..Len(records))
BY DEF RecordsOf

\* Undoing nothing changes nothing.
LEMMA ReplayNothing ==
  ASSUME NEW records \in Seq(RecordType), NEW current \in [Keys -> RowType]
  PROVE  Replayed(records, current, Len(records)) = current
<1>1. \A k : RecordsOf(records, Len(records), k) = {}
  BY DEF RecordsOf
<1>. QED BY <1>1 DEF Replayed

\* Undoing gives rows.
LEMMA ReplayTyped ==
  ASSUME NEW records \in Seq(RecordType), NEW current \in [Keys -> RowType],
         NEW length \in Nat
  PROVE  Replayed(records, current, length) \in [Keys -> RowType]
<1>1. SUFFICES ASSUME NEW k \in Keys, RecordsOf(records, length, k) # {}
               PROVE  records[Oldest(RecordsOf(records, length, k))][k] \in RowType
  BY DEF Replayed
<1>2. Oldest(RecordsOf(records, length, k)) \in RecordsOf(records, length, k)
  BY <1>1, OldestExists, RecordsOfNat
<1>3. PICK n \in 1..Len(records) : /\ n = Oldest(RecordsOf(records, length, k))
                                   /\ k \in DOMAIN records[n]
  BY <1>2, RecordsOfNat DEF RecordsOf
<1>4. records[n] \in RecordType
  BY ElementOfSeq
<1>. QED BY <1>3, <1>4, RecordFacts

\* A command journals the rows it replaces, so every earlier length undoes to
\* the same rows as before.
LEMMA ReplayAppend ==
  ASSUME journal \in Seq(RecordType), journal' \in Seq(RecordType),
         rows \in [Keys -> RowType], rows' \in [Keys -> RowType],
         NEW record \in RecordType,
         Len(journal') = Len(journal) + 1,
         \A n \in 1..Len(journal) : journal'[n] = journal[n],
         journal'[Len(journal) + 1] = record,
         \A k \in DOMAIN record : record[k] = rows[k],
         \A k \in Keys \ DOMAIN record : rows'[k] = rows[k],
         NEW length \in Nat, length <= Len(journal)
  PROVE  Replayed(journal', rows', length) = Replayed(journal, rows, length)
<1>2. Len(journal) \in Nat
  BY LenProperties
<1>3. ASSUME NEW k \in Keys
      PROVE  Replayed(journal', rows', length)[k] = Replayed(journal, rows, length)[k]
  <2>. DEFINE old == RecordsOf(journal, length, k)
              at == RecordsOf(journal', length, k)
  <2>1. old \in SUBSET Nat /\ at \in SUBSET Nat
    BY <1>2 DEF RecordsOf
  <2>2. CASE k \in DOMAIN record
    <3>1. at = old \cup {Len(journal) + 1}
      BY <1>2, <2>2 DEF RecordsOf
    <3>2. CASE old = {}
      <4>1. Oldest(at) = Len(journal) + 1
        <5>1. PICK n \in Nat : n = Len(journal) + 1
          BY <1>2
        <5>2. at \in SUBSET Nat /\ n \in at /\ \A m \in at : n <= m
          BY <3>1, <3>2, <5>1
        <5>. HIDE DEF at
        <5>3. Oldest(at) = n
          BY <5>2, OldestUnique
        <5>. QED BY <5>1, <5>3
      <4>2. Replayed(journal', rows', length)[k] = journal'[Len(journal) + 1][k]
        BY <3>1, <4>1 DEF Replayed
      <4>3. journal'[Len(journal) + 1][k] = rows[k]
        BY <1>2, <2>2
      <4>4. Replayed(journal, rows, length)[k] = rows[k]
        BY <3>2 DEF Replayed
      <4>. QED BY <4>2, <4>3, <4>4
    <3>3. CASE old # {}
      <4>1. Oldest(old) \in old /\ \A m \in old : Oldest(old) <= m
        BY <2>1, <3>3, OldestExists
      <4>2. Oldest(old) \in 1..Len(journal)
        BY <4>1 DEF RecordsOf
      <4>3. Oldest(at) = Oldest(old)
        <5>1. /\ at \in SUBSET Nat /\ Oldest(old) \in at
              /\ \A m \in at : Oldest(old) <= m
          BY <1>2, <2>1, <3>1, <4>1, <4>2
        <5>. HIDE DEF at
        <5>. QED BY <5>1, OldestUnique
      <4>. QED BY <1>2, <3>1, <3>3, <4>2, <4>3 DEF Replayed
    <3>. QED BY <3>2, <3>3
  <2>3. CASE k \notin DOMAIN record
    <3>1. at = old
      BY <1>2, <2>3 DEF RecordsOf
    <3>2. CASE old = {}
      BY <2>3, <3>1, <3>2 DEF Replayed
    <3>3. CASE old # {}
      <4>1. Oldest(old) \in old
        BY <2>1, <3>3, OldestExists
      <4>2. Oldest(old) \in 1..Len(journal)
        BY <4>1 DEF RecordsOf
      <4>. QED BY <1>2, <3>1, <3>3, <4>2 DEF Replayed
    <3>. QED BY <3>2, <3>3
  <2>. QED BY <2>2, <2>3
<1>. QED BY <1>3 DEF Replayed

\* Undoing in two parts, first to an inner length and then to an outer one,
\* is undoing to the outer one at once.
LEMMA ReplayCut ==
  ASSUME NEW records \in Seq(RecordType), NEW current \in [Keys -> RowType],
         NEW outer \in Nat, NEW inner \in Nat,
         outer <= inner, inner <= Len(records)
  PROVE  Replayed(SubSeq(records, 1, inner), Replayed(records, current, inner), outer)
             = Replayed(records, current, outer)
<1>. DEFINE cut == SubSeq(records, 1, inner)
<1>1. Len(cut) = inner /\ \A n \in 1..inner : cut[n] = records[n]
  <2>1. \A n \in 1..inner : records[n] \in RecordType
    BY ElementOfSeq
  <2>. QED BY <2>1, SubSeqProperties
<1>. HIDE DEF cut
<1>2. ASSUME NEW k \in Keys
      PROVE  Replayed(cut, Replayed(records, current, inner), outer)[k]
                 = Replayed(records, current, outer)[k]
  <2>. DEFINE old == RecordsOf(records, outer, k)
              at == RecordsOf(cut, outer, k)
              rest == RecordsOf(records, inner, k)
  <2>1. /\ old \in SUBSET Nat /\ at \in SUBSET Nat /\ rest \in SUBSET Nat
        /\ old = at \cup rest
        /\ \A n \in at, m \in rest : n < m
        /\ at \subseteq 1..inner
    BY <1>1 DEF RecordsOf
  <2>2. CASE at = {}
    <3>1. old = rest
      BY <2>1, <2>2
    <3>. QED BY <2>2, <3>1 DEF Replayed
  <2>3. CASE at # {}
    <3>1. Oldest(at) \in at /\ \A m \in at : Oldest(at) <= m
      BY <2>1, <2>3, OldestExists
    <3>2. Oldest(at) \in old /\ \A m \in old : Oldest(at) <= m
      BY <2>1, <3>1
    <3>3. Oldest(old) = Oldest(at)
      BY <2>1, <3>2, OldestUnique
    <3>. QED BY <1>1, <2>1, <2>3, <3>1, <3>2, <3>3 DEF Replayed
  <2>. QED BY <2>2, <2>3
<1>. QED BY <1>2 DEF Replayed, cut

-----------------------------------------------------------------------------
(***************************************************************************)
(* The inductive invariant.                                                *)
(***************************************************************************)

\* An object older than an open checkpoint has a name older than it: the name
\* table can be truncated to the checkpoint without pulling names from under
\* the objects that stay.
NamesKept ==
    \A t \in Open, u \in Uids :
        (live[u] # 0 /\ u <= tokens[t].nextUid) => live[u] <= tokens[t].nameLen

IInv == TypeOK /\ StacksInLockstep /\ RollbackExact /\ NamesResolve /\ NamesKept

\* The fields of a token somebody holds.
LEMMA HeldFacts ==
  ASSUME TypeOK, NEW t \in Tokens, tokens[t].held
  PROVE  /\ tokens[t].journalLen \in Nat /\ tokens[t].nextUid \in 0..MaxUid
         /\ tokens[t].nameLen \in Nat /\ tokens[t].revision \in 0..MaxRevision
         /\ tokens[t].rows \in [Keys -> RowType]
<1>1. tokens[t] \in {NoToken} \cup HeldToken
  BY DEF TypeOK
<1>2. tokens[t] # NoToken
  BY DEF NoToken
<1>3. tokens[t] \in HeldToken
  BY <1>1, <1>2
<1>. QED BY <1>3 DEF HeldToken

\* The token of an open transaction is held and within the stores.
LEMMA OpenFacts ==
  ASSUME TypeOK, StacksInLockstep, NEW p \in 1..Len(timingStack)
  PROVE  /\ timingStack[p] \in Tokens
         /\ tokens[timingStack[p]].held
         /\ p = 1 => tokens[timingStack[p]].journalLen = 0
         /\ tokens[timingStack[p]].journalLen \in 0..Len(journal)
         /\ tokens[timingStack[p]].nextUid \in 0..nextUid
         /\ tokens[timingStack[p]].nameLen \in 0..Len(names)
<1>1. timingStack[p] \in Tokens
  BY ElementOfSeq DEF TypeOK
<1>2. /\ tokens[timingStack[p]].held
      /\ p = 1 => tokens[timingStack[p]].journalLen = 0
      /\ tokens[timingStack[p]].journalLen <= Len(journal)
      /\ tokens[timingStack[p]].nextUid <= nextUid
      /\ tokens[timingStack[p]].nameLen <= Len(names)
  BY DEF TypeOK, StacksInLockstep, RegistryAccepts
<1>3. /\ tokens[timingStack[p]].journalLen \in Nat
      /\ tokens[timingStack[p]].nextUid \in 0..MaxUid
      /\ tokens[timingStack[p]].nameLen \in Nat
  BY <1>1, <1>2, HeldFacts
<1>4. Len(journal) \in Nat /\ Len(names) \in Nat /\ nextUid \in Nat
  BY LenProperties, BoundsAssumption DEF TypeOK
<1>. QED BY <1>1, <1>2, <1>3, <1>4, BoundsAssumption

\* Closing a transaction leaves the ones below it.
LEMMA ClosedFacts ==
  ASSUME NEW stack \in Seq(Tokens), NEW token, IsOpen(stack, token),
         NEW rest, rest = Closed(stack, token)
  PROVE  \E p \in 1..Len(stack) :
             /\ stack[p] = token
             /\ rest \in Seq(Tokens)
             /\ Len(rest) = p - 1
             /\ \A q \in 1..p - 1 : rest[q] = stack[q]
<1>. DEFINE p == CHOOSE q \in DOMAIN stack : stack[q] = token
<1>1. p \in 1..Len(stack) /\ stack[p] = token
  BY DEF IsOpen
<1>. HIDE DEF p
<1>2. \A q \in 1..p - 1 : stack[q] \in Tokens
  BY <1>1, ElementOfSeq
<1>3. rest = SubSeq(stack, 1, p - 1)
  BY DEF Closed, p
<1>4. /\ SubSeq(stack, 1, p - 1) \in Seq(Tokens)
      /\ Len(SubSeq(stack, 1, p - 1)) = p - 1
      /\ \A q \in 1..p - 1 : SubSeq(stack, 1, p - 1)[q] = stack[q]
  BY <1>1, <1>2, SubSeqProperties
<1>. QED BY <1>1, <1>3, <1>4

\* The tokens of the stacks in terms of positions.
LEMMA OpenIsRange == TypeOK => Open = {timingStack[p] : p \in 1..Len(timingStack)}
BY DEF Open, TypeOK

\* A new session satisfies the invariant.
LEMMA InitIInv == Init => IInv
<1>. SUFFICES ASSUME Init PROVE IInv
  OBVIOUS
<1>. USE DEF Init
<1>1. TypeOK
  <2>1. rows \in [Keys -> RowType]
    BY BoundsAssumption DEF NoRow, RowType, Keys
  <2>2. journal \in Seq(RecordType) /\ names \in Seq(Names)
        /\ timingStack \in Seq(Tokens) /\ sessionStack \in Seq(Tokens)
    OBVIOUS
  <2>. QED BY <2>1, <2>2, BoundsAssumption DEF TypeOK
<1>2. DOMAIN timingStack = {}
  OBVIOUS
<1>3. StacksInLockstep
  BY <1>2 DEF StacksInLockstep
<1>4. RollbackExact /\ NamesKept
  BY <1>2 DEF RollbackExact, NamesKept, Open
<1>5. NamesResolve
  BY DEF NamesResolve
<1>. QED BY <1>1, <1>3, <1>4, <1>5 DEF IInv

-----------------------------------------------------------------------------
(***************************************************************************)
(* Commands: the stacks and the tokens stay.                               *)
(***************************************************************************)

\* A command keeps every open checkpoint exact: it journals what it replaces.
LEMMA CommandKeepsCheckpoints ==
  ASSUME IInv, TypeOK', UNCHANGED <<timingStack, sessionStack, tokens>>,
         nextUid <= nextUid', Len(names) <= Len(names'),
         NEW owners \in SUBSET Keys,
         \/ rows' = rows /\ journal' = journal
         \/ Record(owners) /\ \A k \in Keys \ owners : rows'[k] = rows[k]
  PROVE  StacksInLockstep' /\ RollbackExact'
<1>1. TypeOK /\ StacksInLockstep /\ RollbackExact
  BY DEF IInv
<1>2. /\ rows \in [Keys -> RowType] /\ rows' \in [Keys -> RowType]
      /\ journal \in Seq(RecordType) /\ journal' \in Seq(RecordType)
      /\ timingStack \in Seq(Tokens)
      /\ nextUid \in Nat /\ nextUid' \in Nat
      /\ Len(names) \in Nat /\ Len(names') \in Nat
  BY <1>1, BoundsAssumption, LenProperties DEF TypeOK
<1>3. [k \in owners |-> rows[k]] \in RecordType
  BY <1>2, RecordOfRows
<1>4. /\ Len(journal) \in Nat /\ Len(journal') \in Nat /\ Len(journal) <= Len(journal')
      /\ timingStack = <<>> => journal' = journal
  BY <1>2, <1>3, AppendProperties, LenProperties DEF Record
<1>5. StacksInLockstep'
  <2>1. timingStack' = <<>> => journal' = <<>>
    BY <1>1, <1>4 DEF StacksInLockstep
  <2>2. ASSUME NEW p \in DOMAIN timingStack
        PROVE  /\ tokens[timingStack[p]].held
               /\ p = 1 => tokens[timingStack[p]].journalLen = 0
               /\ tokens[timingStack[p]].journalLen <= Len(journal')
               /\ tokens[timingStack[p]].nextUid <= nextUid'
               /\ tokens[timingStack[p]].nameLen <= Len(names')
    <3>1. p \in 1..Len(timingStack)
      BY <1>2
    <3>2. /\ tokens[timingStack[p]].held
          /\ p = 1 => tokens[timingStack[p]].journalLen = 0
          /\ tokens[timingStack[p]].journalLen \in 0..Len(journal)
          /\ tokens[timingStack[p]].nextUid \in 0..nextUid
          /\ tokens[timingStack[p]].nameLen \in 0..Len(names)
      BY <1>1, <3>1, OpenFacts
    <3>. QED BY <1>2, <1>4, <3>2, SMTT(40)
  <2>. QED BY <1>1, <2>1, <2>2 DEF StacksInLockstep, RegistryAccepts
<1>6. RollbackExact'
  <2>1. SUFFICES ASSUME NEW p \in 1..Len(timingStack)
                 PROVE  Replayed(journal', rows', tokens[timingStack[p]].journalLen)
                            = tokens[timingStack[p]].rows
    BY <1>1, OpenIsRange DEF RollbackExact, Undone, Open
  <2>2. /\ tokens[timingStack[p]].journalLen \in Nat
        /\ tokens[timingStack[p]].journalLen <= Len(journal)
    BY <1>1, <1>4, OpenFacts
  <2>3. Replayed(journal, rows, tokens[timingStack[p]].journalLen) = tokens[timingStack[p]].rows
    BY <1>1, OpenIsRange DEF RollbackExact, Undone
  <2>4. CASE rows' = rows /\ journal' = journal
    BY <2>3, <2>4
  <2>5. CASE Record(owners) /\ \A k \in Keys \ owners : rows'[k] = rows[k]
    <3>1. timingStack # <<>>
      BY <1>2
    <3>2. journal' = Append(journal, [k \in owners |-> rows[k]])
      BY <2>5, <3>1 DEF Record
    <3>3. PICK record \in RecordType :
                 /\ record = [k \in owners |-> rows[k]]
                 /\ DOMAIN record = owners
                 /\ \A k \in owners : record[k] = rows[k]
      BY <1>3
    <3>4. /\ Len(journal') = Len(journal) + 1
          /\ \A n \in 1..Len(journal) : journal'[n] = journal[n]
          /\ journal'[Len(journal) + 1] = record
      BY <1>2, <3>2, <3>3, AppendProperties
    <3>5. PICK length \in Nat : length = tokens[timingStack[p]].journalLen
      BY <2>2
    <3>6. /\ length <= Len(journal)
          /\ \A k \in DOMAIN record : record[k] = rows[k]
          /\ \A k \in Keys \ DOMAIN record : rows'[k] = rows[k]
      BY <2>2, <2>5, <3>3, <3>5
    <3>7. Replayed(journal', rows', length) = Replayed(journal, rows, length)
      BY <1>2, <3>4, <3>6, ReplayAppend
    <3>. QED BY <2>3, <3>5, <3>7
  <2>. QED BY <2>4, <2>5
<1>. QED BY <1>5, <1>6

\* What a command records is a record.
LEMMA RecordTyped ==
  ASSUME TypeOK, NEW owners \in SUBSET Keys, Record(owners)
  PROVE  journal' \in Seq(RecordType)
<1>1. journal \in Seq(RecordType) /\ rows \in [Keys -> RowType]
  BY DEF TypeOK
<1>2. [k \in owners |-> rows[k]] \in RecordType
  BY <1>1, RecordOfRows
<1>. QED BY <1>1, <1>2, AppendProperties DEF Record

\* set_load preserves the invariant.
LEMMA SetLoadIInv ==
  ASSUME IInv, NEW value \in 1..MaxValue, SetLoad(value)
  PROVE  IInv'
<1>1. TypeOK
  BY DEF IInv
<1>2. /\ UNCHANGED <<live, names, nextUid, timingStack, sessionStack, tokens>>
      /\ {0} \in SUBSET Keys
  BY BoundsAssumption DEF SetLoad, registryVars, Keys
<1>3. TypeOK'
  <2>1. rows' \in [Keys -> RowType]
    <3>1. [value |-> value, master |-> 0] \in RowType
      BY BoundsAssumption DEF RowType, Keys
    <3>2. rows \in [Keys -> RowType]
      BY <1>1 DEF TypeOK
    <3>. QED BY <3>1, <3>2 DEF SetLoad, timingVars
  <2>2. revision' \in 0..MaxRevision
    BY <1>1, BoundsAssumption DEF SetLoad, TypeOK, timingVars
  <2>3. journal' \in Seq(RecordType)
    BY <1>1, <1>2, RecordTyped DEF SetLoad, TypeOK, timingVars
  <2>. QED BY <1>1, <1>2, <2>1, <2>2, <2>3 DEF TypeOK
<1>4. \/ rows' = rows /\ journal' = journal
      \/ Record({0}) /\ \A k \in Keys \ {0} : rows'[k] = rows[k]
  BY <1>1 DEF SetLoad, TypeOK, timingVars
<1>5. nextUid <= nextUid' /\ Len(names) <= Len(names')
  BY <1>1, <1>2, BoundsAssumption, LenProperties DEF TypeOK
<1>6. StacksInLockstep' /\ RollbackExact'
  BY <1>2, <1>3, <1>4, <1>5, CommandKeepsCheckpoints
<1>7. NamesResolve' /\ NamesKept'
  BY <1>2 DEF IInv, NamesResolve, NamesKept, Open
<1>. QED BY <1>3, <1>6, <1>7 DEF IInv

\* delete_clock preserves it: objects and rows only disappear, and the rows are
\* journaled.
LEMMA DeleteClockIInv ==
  ASSUME IInv, NEW clock \in Uids, DeleteClock(clock)
  PROVE  IInv'
<1>. DEFINE removed == RemovalClosure(clock)
<1>1. TypeOK
  BY DEF IInv
<1>2. UNCHANGED <<names, nextUid, timingStack, sessionStack, tokens>>
  BY DEF DeleteClock, registryVars
<1>3. removed \in SUBSET Keys /\ Uids \subseteq Keys
  BY BoundsAssumption DEF RemovalClosure, Uids, Keys
<1>4. \/ UNCHANGED <<live, rows, revision, journal>>
      \/ /\ live' = [u \in Uids |-> IF u \in removed THEN 0 ELSE live[u]]
         /\ rows' = [k \in Keys |-> IF k \in removed THEN NoRow ELSE rows[k]]
         /\ Record(removed)
         /\ revision < MaxRevision /\ revision' = revision + 1
  BY DEF DeleteClock, registryVars, timingVars
<1>. HIDE DEF removed
<1>5. TypeOK'
  <2>1. NoRow \in RowType
    BY BoundsAssumption DEF NoRow, RowType, Keys
  <2>2. rows' \in [Keys -> RowType] /\ live' \in [Uids -> Nat]
    <3>1. rows \in [Keys -> RowType] /\ live \in [Uids -> Nat]
      BY <1>1 DEF TypeOK
    <3>2. [k \in Keys |-> IF k \in removed THEN NoRow ELSE rows[k]] \in [Keys -> RowType]
      BY <2>1, <3>1
    <3>3. [u \in Uids |-> IF u \in removed THEN 0 ELSE live[u]] \in [Uids -> Nat]
      BY <3>1
    <3>. QED BY <1>4, <3>1, <3>2, <3>3
  <2>3. revision' \in 0..MaxRevision
    BY <1>1, <1>4, BoundsAssumption DEF TypeOK
  <2>4. journal' \in Seq(RecordType)
    BY <1>1, <1>3, <1>4, RecordTyped DEF TypeOK
  <2>. QED BY <1>1, <1>2, <2>2, <2>3, <2>4 DEF TypeOK
<1>6. \/ rows' = rows /\ journal' = journal
      \/ Record(removed) /\ \A k \in Keys \ removed : rows'[k] = rows[k]
  BY <1>4
<1>7. nextUid <= nextUid' /\ Len(names) <= Len(names')
  BY <1>1, <1>2, BoundsAssumption, LenProperties DEF TypeOK
<1>8. StacksInLockstep' /\ RollbackExact'
  BY <1>2, <1>3, <1>5, <1>6, <1>7, CommandKeepsCheckpoints
<1>9. \A u \in Uids : live'[u] = live[u] \/ live'[u] = 0
  BY <1>1, <1>4 DEF TypeOK
<1>10. NamesResolve'
  BY <1>2, <1>9 DEF IInv, NamesResolve
<1>11. NamesKept'
  BY <1>2, <1>9 DEF IInv, NamesKept, Open
<1>. QED BY <1>5, <1>8, <1>10, <1>11 DEF IInv

\* The three ways CreateClock ends: nothing interned, the clock refused with
\* its UID consumed, or the clock created for an old or a new object.
ClockIgnored == UNCHANGED <<live, names, nextUid, rows, revision, journal>>

ClockRefused ==
    /\ UNCHANGED <<live, names, rows, revision, journal>>
    /\ nextUid' \in {nextUid, nextUid + 1} /\ nextUid' <= MaxUid

OldObject == live' = live /\ names' = names /\ nextUid' = nextUid

NewObject(name, uid) ==
    /\ uid = nextUid + 1 /\ nextUid' = uid
    /\ live' = [u \in Uids |-> IF u = uid THEN NameIndex(name) ELSE live[u]]
    /\ \A u \in Uids : live[u] # NameIndex(name)
    /\ \/ names' = names /\ NameIndex(name) \in 1..Len(names)
       \/ names' = Append(names, name) /\ NameIndex(name) = Len(names) + 1

ClockWritten(uid, value, master) ==
    /\ rows' = [rows EXCEPT ![uid] = [value |-> value, master |-> master]]
    /\ Record({uid})
    /\ revision' \in 0..MaxRevision

\* CreateClock is one of them.
LEMMA CreateClockCases ==
  ASSUME TypeOK, NamesResolve,
         NEW name \in Names, NEW value \in 1..MaxValue, NEW master \in Keys,
         NEW valid \in BOOLEAN, CreateClock(name, value, master, valid)
  PROVE  \/ ClockIgnored
         \/ ClockRefused
         \/ \E uid \in Uids :
               /\ OldObject \/ NewObject(name, uid)
               /\ ClockWritten(uid, value, master)
               /\ live'[uid] # 0
               /\ master # 0 => uid \notin Ancestors(master) /\ HasRow(master)
<1>. DEFINE uid == InternedUid(name)
            new == Registered(name) = {}
<1>1. /\ nextUid \in 0..MaxUid /\ MaxUid \in Nat /\ live \in [Uids -> Nat]
      /\ names \in Seq(Names) /\ Len(names) \in Nat /\ revision \in 0..MaxRevision
      /\ MaxRevision \in Nat
  BY BoundsAssumption, LenProperties DEF TypeOK
<1>2. \/ NameIndex(name) \in 1..Len(names)
      \/ NameIndex(name) = Len(names) + 1
  BY <1>1 DEF NameIndex
<1>3. ~new => uid \in Uids /\ live[uid] = NameIndex(name) /\ live[uid] # 0
  BY DEF InternedUid, Registered
<1>4. new => uid = nextUid + 1 /\ \A u \in Uids : live[u] # NameIndex(name)
  BY <1>1, <1>2 DEF InternedUid, Registered
<1>6. CASE InternFails(name)
  BY <1>6 DEF CreateClock, registryVars, timingVars, ClockIgnored
<1>7. CASE ~InternFails(name) /\ ~(valid /\ TimingAcceptsClock(uid, master))
  <2>1. UNCHANGED <<live, names, rows, revision, journal>>
    BY <1>7 DEF CreateClock, timingVars
  <2>2. nextUid' = IF new THEN uid ELSE nextUid
    BY <1>7 DEF CreateClock
  <2>. QED BY <1>1, <1>4, <1>7, <2>1, <2>2 DEF InternFails, ClockRefused
<1>8. CASE ~InternFails(name) /\ valid /\ TimingAcceptsClock(uid, master)
  <2>1. /\ live' = [u \in Uids |-> IF u = uid THEN NameIndex(name) ELSE live[u]]
        /\ names' = IF NameIndex(name) > Len(names) THEN Append(names, name) ELSE names
        /\ nextUid' = IF new THEN uid ELSE nextUid
        /\ rows' = [rows EXCEPT ![uid] = [value |-> value, master |-> master]]
        /\ Record({uid})
        /\ revision' = RevisionAfterClock(master)
    BY <1>8 DEF CreateClock
  <2>2. /\ revision' \in 0..MaxRevision
        /\ master # 0 => uid \notin Ancestors(master) /\ HasRow(master)
    BY <1>1, <1>8, <2>1 DEF TimingAcceptsClock, RevisionAfterClock
  <2>. HIDE DEF uid
  <2>3. CASE new
    <3>1. uid \in Uids /\ uid = nextUid + 1
      BY <1>1, <1>4, <1>8, <2>3 DEF InternFails, Uids
    <3>2. \/ names' = names /\ NameIndex(name) \in 1..Len(names)
          \/ names' = Append(names, name) /\ NameIndex(name) = Len(names) + 1
      BY <1>1, <1>2, <2>1
    <3>3. NewObject(name, uid)
      BY <1>4, <2>1, <2>3, <3>1, <3>2 DEF NewObject
    <3>4. live'[uid] # 0
      BY <1>1, <1>2, <2>1, <3>1
    <3>. QED BY <2>1, <2>2, <3>1, <3>3, <3>4 DEF ClockWritten
  <2>4. CASE ~new
    <3>1. uid \in Uids /\ live[uid] = NameIndex(name)
      BY <1>3, <2>4
    <3>2. live' = live
      BY <1>1, <2>1, <3>1
    <3>3. live[uid] \in Nat
      BY <1>1, <3>1
    <3>4. CASE NameIndex(name) \in 1..Len(names)
      <4>1. names' = names
        BY <1>1, <2>1, <3>4
      <4>. QED BY <1>3, <2>1, <2>2, <2>4, <3>1, <3>2, <4>1 DEF ClockWritten, OldObject
    <3>5. CASE NameIndex(name) = Len(names) + 1
      BY <1>1, <1>3, <2>4, <3>1, <3>5 DEF NamesResolve
    <3>. QED BY <1>2, <3>4, <3>5
  <2>. QED BY <2>3, <2>4
<1>. QED BY <1>6, <1>7, <1>8

\* create_clock preserves the invariant: a new object is younger than every open
\* checkpoint.
LEMMA CreateClockIInv ==
  ASSUME IInv, NEW name \in Names, NEW value \in 1..MaxValue, NEW master \in Keys,
         NEW valid \in BOOLEAN, CreateClock(name, value, master, valid)
  PROVE  IInv'
<1>1. TypeOK /\ NamesResolve /\ NamesKept /\ StacksInLockstep
  BY DEF IInv
<1>2. /\ nextUid \in 0..MaxUid /\ MaxUid \in Nat /\ live \in [Uids -> Nat]
      /\ names \in Seq(Names) /\ Len(names) \in Nat /\ revision \in 0..MaxRevision
      /\ rows \in [Keys -> RowType] /\ Uids \subseteq Keys
  BY <1>1, BoundsAssumption, LenProperties DEF TypeOK, Uids, Keys
<1>3. UNCHANGED <<timingStack, sessionStack, tokens>>
  BY DEF CreateClock
<1>4. CASE ClockIgnored
  <2>. USE <1>4 DEF ClockIgnored
  <2>1. TypeOK'
    BY <1>1, <1>3, <1>4 DEF TypeOK
  <2>2. StacksInLockstep' /\ RollbackExact'
    BY <1>3, <1>4 DEF IInv, StacksInLockstep, RegistryAccepts, RollbackExact, Undone, Open
  <2>3. NamesResolve' /\ NamesKept'
    BY <1>1, <1>3, <1>4 DEF NamesResolve, NamesKept, Open
  <2>. QED BY <2>1, <2>2, <2>3 DEF IInv
<1>5. CASE ClockRefused
  <2>. USE <1>5 DEF ClockRefused
  <2>1. nextUid' \in 0..MaxUid /\ nextUid <= nextUid' /\ Len(names) <= Len(names')
    BY <1>2, <1>5
  <2>2. TypeOK'
    BY <1>1, <1>3, <1>5, <2>1 DEF TypeOK
  <2>3. StacksInLockstep' /\ RollbackExact'
    BY <1>3, <1>5, <2>1, <2>2, CommandKeepsCheckpoints
  <2>4. NamesResolve'
    BY <1>1, <1>2, <1>5, <2>1 DEF NamesResolve, Uids
  <2>5. NamesKept'
    BY <1>1, <1>3, <1>5 DEF NamesKept, Open
  <2>. QED BY <2>2, <2>3, <2>4, <2>5 DEF IInv
<1>6. ASSUME NEW uid \in Uids, OldObject \/ NewObject(name, uid),
             ClockWritten(uid, value, master)
      PROVE  IInv'
  <2>1. {uid} \in SUBSET Keys
    BY <1>2
  <2>2. /\ nextUid' \in 0..MaxUid /\ nextUid <= nextUid'
        /\ names' \in Seq(Names) /\ Len(names') \in Nat /\ Len(names) <= Len(names')
        /\ live' \in [Uids -> Nat]
    <3>1. CASE OldObject
      BY <1>2, <3>1 DEF OldObject
    <3>2. CASE NewObject(name, uid)
      <4>1. NameIndex(name) \in Nat
        BY <1>2, <3>2 DEF NewObject
      <4>2. live' \in [Uids -> Nat]
        BY <1>2, <3>2, <4>1 DEF NewObject
      <4>3. names' \in Seq(Names) /\ Len(names') \in Nat /\ Len(names) <= Len(names')
        <5>1. Append(names, name) \in Seq(Names) /\ Len(Append(names, name)) = Len(names) + 1
          BY <1>2, AppendProperties
        <5>2. names' = names \/ names' = Append(names, name)
          BY <3>2 DEF NewObject
        <5>. QED BY <1>2, <5>1, <5>2
      <4>4. nextUid' \in 0..MaxUid /\ nextUid <= nextUid'
        BY <1>2, <3>2 DEF Uids, NewObject
      <4>. QED BY <4>2, <4>3, <4>4
    <3>. QED BY <1>6, <3>1, <3>2
  <2>3. rows' \in [Keys -> RowType]
    <3>1. [value |-> value, master |-> master] \in RowType
      BY BoundsAssumption DEF RowType
    <3>. QED BY <1>2, <1>6, <3>1 DEF ClockWritten
  <2>4. journal' \in Seq(RecordType)
    BY <1>1, <1>6, <2>1, RecordTyped DEF ClockWritten
  <2>5. TypeOK'
    BY <1>1, <1>3, <1>6, <2>2, <2>3, <2>4 DEF TypeOK, ClockWritten
  <2>6. Record({uid}) /\ \A k \in Keys \ {uid} : rows'[k] = rows[k]
    BY <1>2, <1>6 DEF ClockWritten
  <2>7. StacksInLockstep' /\ RollbackExact'
    BY <1>3, <2>1, <2>2, <2>5, <2>6, CommandKeepsCheckpoints
  <2>8. NamesResolve' /\ NamesKept'
    <3>1. CASE OldObject
      BY <1>1, <1>3, <3>1 DEF NamesResolve, NamesKept, Open, OldObject
    <3>2. CASE NewObject(name, uid)
      <4>. USE <3>2 DEF NewObject
      <4>1. NameIndex(name) \in Nat /\ NameIndex(name) <= Len(names')
        BY <1>2, <3>2, AppendProperties
      <4>2. ASSUME NEW u \in Uids, NEW v \in Uids, live'[u] # 0
            PROVE  live'[u] <= Len(names') /\ u <= nextUid' /\ (live'[u] = live'[v] => u = v)
        <5>1. CASE u = uid
          BY <1>2, <3>2, <4>1, <5>1
        <5>2. CASE u # uid
          <6>1. live'[u] = live[u] /\ live[u] <= Len(names) /\ u <= nextUid
            BY <1>1, <3>2, <4>2, <5>2 DEF NamesResolve
          <6>2. u <= nextUid' /\ live'[u] <= Len(names')
            BY <1>2, <2>2, <6>1 DEF Uids
          <6>3. live'[u] = live'[v] => u = v
            BY <1>1, <3>2, <4>2, <5>2 DEF NamesResolve
          <6>. QED BY <6>2, <6>3
        <5>. QED BY <5>1, <5>2
      <4>3. NamesResolve'
        BY <4>2 DEF NamesResolve
      <4>4. ASSUME NEW p \in 1..Len(timingStack), NEW u \in Uids,
                   live'[u] # 0, u <= tokens[timingStack[p]].nextUid
            PROVE  live'[u] <= tokens[timingStack[p]].nameLen
        <5>1. tokens[timingStack[p]].nextUid \in 0..nextUid
          BY <1>1, OpenFacts
        <5>2. u # uid
          BY <1>2, <3>2, <4>4, <5>1
        <5>3. timingStack[p] \in Open
          BY <1>1, OpenIsRange
        <5>4. live'[u] = live[u]
          BY <3>2, <5>2
        <5>. QED BY <1>1, <4>4, <5>3, <5>4 DEF NamesKept
      <4>5. Open' = {timingStack[p] : p \in 1..Len(timingStack)}
        BY <1>1, <1>3, OpenIsRange DEF Open
      <4>6. NamesKept'
        BY <1>3, <4>4, <4>5 DEF NamesKept
      <4>. QED BY <4>3, <4>6
    <3>. QED BY <1>6, <3>1, <3>2
  <2>. QED BY <2>5, <2>7, <2>8 DEF IInv
<1>. QED BY <1>1, <1>4, <1>5, <1>6, CreateClockCases

-----------------------------------------------------------------------------
(***************************************************************************)
(* Checkpoints.                                                            *)
(***************************************************************************)

\* constraint_checkpoint preserves it: the new transaction has nothing to undo.
LEMMA CheckpointIInv ==
  ASSUME IInv, ConstraintCheckpoint
  PROVE  IInv'
<1>. DEFINE token == CHOOSE t \in Tokens : ~tokens[t].held
            fresh == [held |-> TRUE, journalLen |-> Len(journal), revision |-> revision,
                      nextUid |-> nextUid, nameLen |-> Len(names),
                      rows |-> rows, live |-> live]
            depth == Len(timingStack)
<1>1. TypeOK /\ StacksInLockstep /\ RollbackExact /\ NamesResolve /\ NamesKept
  BY DEF IInv
<1>2. token \in Tokens /\ ~tokens[token].held
  BY DEF ConstraintCheckpoint
<1>3. /\ tokens' = [tokens EXCEPT ![token] = fresh]
      /\ timingStack' = Append(timingStack, token)
      /\ sessionStack' = Append(sessionStack, token)
      /\ UNCHANGED <<live, names, nextUid, rows, revision, journal>>
  BY DEF ConstraintCheckpoint, registryVars, timingVars
<1>. HIDE DEF token
<1>4. /\ timingStack \in Seq(Tokens) /\ sessionStack \in Seq(Tokens) /\ depth \in Nat
      /\ tokens \in [Tokens -> {NoToken} \cup HeldToken]
      /\ nextUid \in 0..MaxUid /\ Len(names) \in Nat /\ Len(journal) \in Nat
      /\ rows \in [Keys -> RowType] /\ live \in [Uids -> Nat]
      /\ revision \in 0..MaxRevision /\ journal \in Seq(RecordType)
  BY <1>1, LenProperties DEF TypeOK
<1>5. fresh \in HeldToken
  BY <1>4 DEF HeldToken
<1>6. /\ timingStack' \in Seq(Tokens) /\ sessionStack' \in Seq(Tokens)
      /\ Len(timingStack') = depth + 1
      /\ \A p \in 1..depth : timingStack'[p] = timingStack[p]
      /\ timingStack'[depth + 1] = token
  BY <1>2, <1>3, <1>4, AppendProperties
<1>7. TypeOK'
  <2>1. tokens' \in [Tokens -> {NoToken} \cup HeldToken]
    BY <1>2, <1>3, <1>4, <1>5
  <2>. QED BY <1>1, <1>3, <1>6, <2>1 DEF TypeOK
<1>8. ASSUME NEW p \in 1..depth
      PROVE  timingStack[p] # token /\ tokens'[timingStack'[p]] = tokens[timingStack[p]]
  <2>1. timingStack[p] \in Tokens /\ tokens[timingStack[p]].held
    BY <1>1, OpenFacts
  <2>2. timingStack[p] # token
    BY <1>2, <2>1
  <2>. QED BY <1>3, <1>4, <1>6, <2>1, <2>2
<1>9. tokens'[timingStack'[depth + 1]] = fresh
  BY <1>2, <1>3, <1>4, <1>6
<1>10. fresh.held /\ fresh.journalLen = Len(journal) /\ fresh.nextUid = nextUid
       /\ fresh.nameLen = Len(names) /\ fresh.rows = rows
  OBVIOUS
<1>. HIDE DEF fresh
<1>11. DOMAIN timingStack' = 1..depth + 1
  BY <1>4, <1>6
<1>. HIDE DEF depth
<1>12. StacksInLockstep'
  <2>1. sessionStack' = timingStack' /\ timingStack' # <<>>
    <3>1. sessionStack = timingStack
      BY <1>1 DEF StacksInLockstep
    <3>2. Len(timingStack') # 0
      BY <1>4, <1>6
    <3>. QED BY <1>3, <3>1, <3>2
  <2>2. ASSUME NEW p \in DOMAIN timingStack', NEW q \in DOMAIN timingStack',
               timingStack'[p] = timingStack'[q]
        PROVE  p = q
    <3>1. CASE p \in 1..depth /\ q \in 1..depth
      <4>1. \A r, s \in DOMAIN timingStack : timingStack[r] = timingStack[s] => r = s
        BY <1>1 DEF StacksInLockstep
      <4>2. p \in DOMAIN timingStack /\ q \in DOMAIN timingStack
        BY <1>4, <3>1 DEF depth
      <4>3. timingStack[p] = timingStack[q]
        BY <1>6, <2>2, <3>1 DEF depth
      <4>. QED BY <4>1, <4>2, <4>3
    <3>2. \A r \in 1..depth : timingStack'[r] # timingStack'[depth + 1]
      BY <1>6, <1>8 DEF depth
    <3>3. p \in 1..depth \/ p = depth + 1
      BY <1>4, <1>11
    <3>4. q \in 1..depth \/ q = depth + 1
      BY <1>4, <1>11
    <3>. QED BY <2>2, <3>1, <3>2, <3>3, <3>4
  <2>3. ASSUME NEW p \in DOMAIN timingStack'
        PROVE  /\ tokens'[timingStack'[p]].held
               /\ p = 1 => tokens'[timingStack'[p]].journalLen = 0
               /\ tokens'[timingStack'[p]].journalLen <= Len(journal')
               /\ RegistryAccepts(tokens[timingStack[p]])'
    <3>1. CASE p \in 1..depth
      <4>1. /\ tokens[timingStack[p]].held
            /\ p = 1 => tokens[timingStack[p]].journalLen = 0
            /\ tokens[timingStack[p]].journalLen <= Len(journal)
            /\ tokens[timingStack[p]].nextUid <= nextUid
            /\ tokens[timingStack[p]].nameLen <= Len(names)
        BY <1>1, <1>4, <3>1, OpenFacts DEF depth
      <4>. QED BY <1>3, <1>8, <3>1, <4>1 DEF RegistryAccepts
    <3>2. CASE p = depth + 1
      <4>1. p = 1 => journal = <<>>
        BY <1>1, <1>4, <3>2 DEF StacksInLockstep, depth
      <4>2. p = 1 => Len(journal) = 0
        BY <4>1
      <4>3. tokens'[timingStack'[p]] = fresh
        BY <1>9, <3>2
      <4>4. nextUid <= nextUid /\ Len(names) <= Len(names) /\ Len(journal) <= Len(journal)
        BY <1>4, BoundsAssumption
      <4>. QED BY <1>3, <1>10, <4>2, <4>3, <4>4 DEF RegistryAccepts
    <3>. QED BY <1>4, <1>11, <3>1, <3>2
  <2>4. ASSUME NEW p \in DOMAIN timingStack', NEW q \in DOMAIN timingStack', p < q
        PROVE  LET outer == tokens'[timingStack'[p]]  inner == tokens'[timingStack'[q]]
               IN  /\ outer.journalLen <= inner.journalLen
                   /\ outer.nextUid <= inner.nextUid
                   /\ outer.nameLen <= inner.nameLen
    <3>1. p \in 1..depth
      BY <1>4, <1>11, <2>4
    <3>2. CASE q \in 1..depth
      <4>1. p \in DOMAIN timingStack /\ q \in DOMAIN timingStack
        BY <1>4, <3>1, <3>2 DEF depth
      <4>. QED BY <1>1, <1>8, <2>4, <3>1, <3>2, <4>1 DEF StacksInLockstep
    <3>3. CASE q = depth + 1
      <4>1. /\ tokens[timingStack[p]].journalLen <= Len(journal)
            /\ tokens[timingStack[p]].nextUid <= nextUid
            /\ tokens[timingStack[p]].nameLen <= Len(names)
        BY <1>1, <1>4, <3>1, OpenFacts DEF depth
      <4>. QED BY <1>8, <1>9, <1>10, <3>1, <3>3, <4>1
    <3>. QED BY <1>4, <1>11, <3>2, <3>3
  <2>. QED BY <2>1, <2>2, <2>3, <2>4 DEF StacksInLockstep
<1>13. \A t \in Open' : \E p \in 1..depth + 1 : t = timingStack'[p]
  BY <1>11 DEF Open
<1>14. RollbackExact'
  <2>1. SUFFICES ASSUME NEW p \in 1..depth + 1
                 PROVE  Replayed(journal, rows, tokens'[timingStack'[p]].journalLen)
                            = tokens'[timingStack'[p]].rows
    BY <1>3, <1>13 DEF RollbackExact, Undone
  <2>2. CASE p \in 1..depth
    BY <1>1, <1>8, <2>2, OpenIsRange DEF RollbackExact, Undone, depth
  <2>3. CASE p = depth + 1
    BY <1>4, <1>9, <1>10, <2>3, ReplayNothing
  <2>. QED BY <1>4, <2>2, <2>3
<1>15. NamesResolve'
  BY <1>1, <1>3 DEF NamesResolve
<1>16. NamesKept'
  <2>1. SUFFICES ASSUME NEW p \in 1..depth + 1, NEW u \in Uids,
                        live[u] # 0, u <= tokens'[timingStack'[p]].nextUid
                 PROVE  live[u] <= tokens'[timingStack'[p]].nameLen
    BY <1>3, <1>13 DEF NamesKept
  <2>2. CASE p \in 1..depth
    BY <1>1, <1>8, <2>1, <2>2, OpenIsRange DEF NamesKept, depth
  <2>3. CASE p = depth + 1
    BY <1>1, <1>9, <1>10, <2>1, <2>3 DEF NamesResolve
  <2>. QED BY <1>4, <2>2, <2>3
<1>. QED BY <1>7, <1>12, <1>14, <1>15, <1>16 DEF IInv

\* Every store accepts the token of an open transaction.
LEMMA OpenIsAccepted ==
  ASSUME IInv, NEW token \in Tokens, IsOpen(timingStack, token)
  PROVE  TimingAccepts(token) /\ RegistryAccepts(tokens[token])
<1>1. TypeOK /\ StacksInLockstep
  BY DEF IInv
<1>2. PICK p \in 1..Len(timingStack) : timingStack[p] = token
  BY <1>1 DEF IsOpen, TypeOK
<1>3. Len(journal) \in Nat /\ Len(names) \in Nat /\ nextUid \in Nat
  BY <1>1, LenProperties, BoundsAssumption DEF TypeOK
<1>. QED BY <1>1, <1>2, <1>3, OpenFacts DEF TimingAccepts, RegistryAccepts

\* Presenting a token that is not open consumes it and changes nothing else.
LEMMA StaleTokenIInv ==
  ASSUME IInv, NEW token \in Tokens, ~IsOpen(timingStack, token),
         tokens' = [tokens EXCEPT ![token] = NoToken],
         UNCHANGED <<live, names, nextUid, rows, revision, journal, timingStack, sessionStack>>
  PROVE  IInv'
<1>1. TypeOK /\ StacksInLockstep /\ RollbackExact /\ NamesResolve /\ NamesKept
  BY DEF IInv
<1>2. TypeOK'
  BY <1>1 DEF TypeOK
<1>3. \A p \in DOMAIN timingStack : tokens'[timingStack[p]] = tokens[timingStack[p]]
  BY <1>1 DEF TypeOK, IsOpen
<1>4. StacksInLockstep'
  BY <1>1, <1>3 DEF StacksInLockstep, RegistryAccepts
<1>5. Open' = Open /\ \A t \in Open : tokens'[t] = tokens[t]
  BY <1>3 DEF Open
<1>6. RollbackExact'
  BY <1>1, <1>5 DEF RollbackExact, Undone
<1>7. NamesResolve' /\ NamesKept'
  BY <1>1, <1>5 DEF NamesResolve, NamesKept
<1>. QED BY <1>2, <1>4, <1>6, <1>7 DEF IInv

\* The transactions that stay open after one is closed.
Closes(token, depth) ==
    /\ depth < Len(timingStack) /\ timingStack[depth + 1] = token
    /\ timingStack' \in Seq(Tokens) /\ sessionStack' = timingStack'
    /\ Len(timingStack') = depth
    /\ \A p \in 1..depth : /\ timingStack'[p] = timingStack[p]
                           /\ tokens'[timingStack[p]] = tokens[timingStack[p]]

\* Closing leaves some number of transactions.
LEMMA CloseFacts ==
  ASSUME TypeOK, StacksInLockstep, NEW token \in Tokens, IsOpen(timingStack, token),
         timingStack' = Closed(timingStack, token),
         sessionStack' = Closed(sessionStack, token),
         tokens' = [tokens EXCEPT ![token] = NoToken]
  PROVE  \E depth \in Nat : Closes(token, depth)
<1>1. timingStack \in Seq(Tokens) /\ Len(timingStack) \in Nat
  BY LenProperties DEF TypeOK
<1>. DEFINE rest == timingStack'
<1>0. rest = Closed(timingStack, token)
  OBVIOUS
<1>. HIDE DEF rest
<1>2. PICK at \in 1..Len(timingStack) :
             /\ timingStack[at] = token
             /\ rest \in Seq(Tokens)
             /\ Len(rest) = at - 1
             /\ \A q \in 1..at - 1 : rest[q] = timingStack[q]
  BY <1>0, <1>1, ClosedFacts
<1>3. sessionStack' = timingStack'
  BY DEF StacksInLockstep
<1>4. ASSUME NEW p \in 1..at - 1
      PROVE  tokens'[timingStack[p]] = tokens[timingStack[p]]
  <2>1. p \in DOMAIN timingStack /\ at \in DOMAIN timingStack /\ p # at
    BY <1>1, <1>2
  <2>2. timingStack[p] # timingStack[at]
    BY <2>1 DEF StacksInLockstep
  <2>3. timingStack[p] \in Tokens
    BY <1>1, <2>1, ElementOfSeq
  <2>. QED BY <1>2, <2>2, <2>3 DEF TypeOK
<1>. timingStack' = rest
  BY DEF rest
<1>5. at - 1 \in Nat /\ at - 1 < Len(timingStack) /\ (at - 1) + 1 = at
  BY <1>1, <1>2
<1>6. Closes(token, at - 1)
  BY <1>2, <1>3, <1>4, <1>5 DEF Closes
<1>. QED BY <1>5, <1>6

\* Closing keeps the stacks in lockstep if the stores do not fall below the
\* checkpoints that stay open.
LEMMA CloseKeepsLockstep ==
  ASSUME TypeOK, StacksInLockstep, NEW token \in Tokens, NEW depth \in Nat,
         Closes(token, depth),
         depth = 0 => journal' = <<>>,
         \A p \in 1..depth : /\ tokens[timingStack[p]].journalLen <= Len(journal')
                             /\ tokens[timingStack[p]].nextUid <= nextUid'
                             /\ tokens[timingStack[p]].nameLen <= Len(names')
  PROVE  StacksInLockstep'
<1>1. /\ timingStack \in Seq(Tokens) /\ Len(timingStack) \in Nat
      /\ DOMAIN timingStack = 1..Len(timingStack)
      /\ DOMAIN timingStack' = 1..depth
  BY LenProperties DEF TypeOK, Closes
<1>2. 1..depth \subseteq DOMAIN timingStack
  BY <1>1 DEF Closes
<1>3. sessionStack' = timingStack' /\ (timingStack' = <<>> => journal' = <<>>)
  BY DEF Closes
<1>4. \A p, q \in DOMAIN timingStack' : timingStack'[p] = timingStack'[q] => p = q
  BY <1>1, <1>2 DEF Closes, StacksInLockstep
<1>5. \A p \in DOMAIN timingStack' :
          /\ tokens'[timingStack'[p]].held
          /\ p = 1 => tokens'[timingStack'[p]].journalLen = 0
          /\ tokens'[timingStack'[p]].journalLen <= Len(journal')
          /\ tokens'[timingStack'[p]].nextUid <= nextUid'
          /\ tokens'[timingStack'[p]].nameLen <= Len(names')
  BY <1>1, <1>2 DEF Closes, StacksInLockstep
<1>6. \A p, q \in DOMAIN timingStack' :
          p < q =>
              LET outer == tokens'[timingStack'[p]]  inner == tokens'[timingStack'[q]]
              IN  /\ outer.journalLen <= inner.journalLen
                  /\ outer.nextUid <= inner.nextUid
                  /\ outer.nameLen <= inner.nameLen
  <2>1. SUFFICES ASSUME NEW p \in DOMAIN timingStack', NEW q \in DOMAIN timingStack', p < q
                 PROVE  LET outer == tokens'[timingStack'[p]]  inner == tokens'[timingStack'[q]]
                        IN  /\ outer.journalLen <= inner.journalLen
                            /\ outer.nextUid <= inner.nextUid
                            /\ outer.nameLen <= inner.nameLen
    OBVIOUS
  <2>2. /\ tokens'[timingStack'[p]] = tokens[timingStack[p]]
        /\ tokens'[timingStack'[q]] = tokens[timingStack[q]]
    BY <1>1 DEF Closes
  <2>3. p \in DOMAIN timingStack /\ q \in DOMAIN timingStack
    BY <1>1, <1>2
  <2>. QED BY <2>1, <2>2, <2>3 DEF StacksInLockstep
<1>. QED BY <1>3, <1>4, <1>5, <1>6 DEF StacksInLockstep, RegistryAccepts

\* Committing preserves the invariant: the journal stays while anyone needs it.
LEMMA CommitIInv ==
  ASSUME IInv, NEW token \in Tokens, Commit(token)
  PROVE  IInv'
<1>1. TypeOK /\ StacksInLockstep /\ RollbackExact /\ NamesResolve /\ NamesKept
  BY DEF IInv
<1>2. /\ tokens' = [tokens EXCEPT ![token] = NoToken]
      /\ UNCHANGED <<live, names, nextUid, rows, revision>>
  BY DEF Commit, registryVars
<1>3. CASE ~IsOpen(timingStack, token)
  <2>1. UNCHANGED <<journal, timingStack, sessionStack>>
    BY <1>3 DEF Commit, TimingAccepts
  <2>. QED BY <1>2, <1>3, <2>1, StaleTokenIInv
<1>4. CASE IsOpen(timingStack, token)
  <2>1. /\ timingStack' = Closed(timingStack, token)
        /\ journal' = JournalAfterCommit(timingStack')
        /\ sessionStack' = Closed(sessionStack, token)
    BY <1>4, OpenIsAccepted DEF Commit
  <2>2. PICK depth \in Nat : Closes(token, depth)
    BY <1>1, <1>2, <1>4, <2>1, CloseFacts
  <2>3. /\ journal' \in Seq(RecordType)
        /\ depth = 0 => journal' = <<>>
        /\ depth # 0 => journal' = journal
    <3>1. depth = 0 <=> timingStack' = <<>>
      BY <2>2 DEF Closes
    <3>. QED BY <1>1, <2>1, <3>1 DEF JournalAfterCommit, TypeOK
  <2>4. TypeOK'
    BY <1>1, <1>2, <2>2, <2>3 DEF TypeOK, Closes
  <2>5. \A p \in 1..depth : p \in 1..Len(timingStack)
    BY <1>1, <2>2, LenProperties DEF Closes, TypeOK
  <2>6. \A p \in 1..depth : /\ tokens[timingStack[p]].journalLen <= Len(journal')
                            /\ tokens[timingStack[p]].nextUid <= nextUid'
                            /\ tokens[timingStack[p]].nameLen <= Len(names')
    <3>1. SUFFICES ASSUME NEW p \in 1..depth
                   PROVE  /\ tokens[timingStack[p]].journalLen <= Len(journal)
                          /\ tokens[timingStack[p]].nextUid <= nextUid
                          /\ tokens[timingStack[p]].nameLen <= Len(names)
      BY <1>2, <2>3
    <3>2. nextUid \in Nat /\ Len(journal) \in Nat /\ Len(names) \in Nat
      BY <1>1, BoundsAssumption, LenProperties DEF TypeOK
    <3>. QED BY <1>1, <2>5, <3>2, OpenFacts
  <2>7. StacksInLockstep'
    BY <1>1, <2>2, <2>3, <2>6, CloseKeepsLockstep
  <2>8. \A t \in Open' : t \in Open /\ tokens'[t] = tokens[t] /\ journal' = journal
    <3>1. DOMAIN timingStack' = 1..depth
      BY <2>2 DEF Closes
    <3>2. SUFFICES ASSUME NEW p \in 1..depth
                   PROVE  /\ timingStack[p] \in Open
                          /\ tokens'[timingStack[p]] = tokens[timingStack[p]]
                          /\ journal' = journal
      BY <2>2, <3>1 DEF Open, Closes
    <3>. QED BY <1>1, <2>2, <2>3, <2>5, OpenIsRange DEF Closes
  <2>9. RollbackExact'
    BY <1>1, <1>2, <2>8 DEF RollbackExact, Undone
  <2>10. NamesResolve' /\ NamesKept'
    BY <1>1, <1>2, <2>8 DEF NamesResolve, NamesKept
  <2>. QED BY <2>4, <2>7, <2>9, <2>10 DEF IInv
<1>. QED BY <1>3, <1>4

\* Restoring preserves it: undoing in parts is undoing at once.
LEMMA RestoreIInv ==
  ASSUME IInv, NEW token \in Tokens, Restore(token)
  PROVE  IInv'
<1>. DEFINE checkpoint == tokens[token]
<1>1. TypeOK /\ StacksInLockstep /\ RollbackExact /\ NamesResolve /\ NamesKept
  BY DEF IInv
<1>2. tokens' = [tokens EXCEPT ![token] = NoToken] /\ checkpoint.held
  BY DEF Restore
<1>3. CASE ~IsOpen(timingStack, token)
  <2>1. UNCHANGED <<live, names, nextUid, rows, revision, journal, timingStack, sessionStack>>
    BY <1>3 DEF Restore, TimingAccepts, registryVars, timingVars
  <2>. QED BY <1>2, <1>3, <2>1, StaleTokenIInv
<1>4. CASE IsOpen(timingStack, token)
  <2>1. /\ live' = LiveAfterRollback(checkpoint)
        /\ names' = SubSeq(names, 1, checkpoint.nameLen)
        /\ nextUid' = nextUid
        /\ rows' = Replayed(journal, rows, checkpoint.journalLen)
        /\ journal' = SubSeq(journal, 1, checkpoint.journalLen)
        /\ revision' = checkpoint.revision
        /\ timingStack' = Closed(timingStack, token)
        /\ sessionStack' = Closed(sessionStack, token)
    BY <1>4, OpenIsAccepted DEF Restore, RegistryRollback, UidAfterRollback, Undone
  <2>2. PICK depth \in Nat : Closes(token, depth)
    BY <1>1, <1>2, <1>4, <2>1, CloseFacts
  <2>3. depth + 1 \in 1..Len(timingStack) /\ \A p \in 1..depth : p \in 1..Len(timingStack)
    BY <1>1, <2>2, LenProperties DEF Closes, TypeOK
  <2>4. /\ checkpoint.journalLen \in 0..Len(journal)
        /\ checkpoint.nextUid \in 0..nextUid
        /\ checkpoint.nameLen \in 0..Len(names)
        /\ checkpoint.revision \in 0..MaxRevision
    BY <1>1, <1>2, <2>2, <2>3, OpenFacts, HeldFacts DEF Closes
  <2>5. /\ journal \in Seq(RecordType) /\ rows \in [Keys -> RowType]
        /\ names \in Seq(Names) /\ live \in [Uids -> Nat]
        /\ nextUid \in 0..MaxUid
        /\ Len(journal) \in Nat /\ Len(names) \in Nat
    BY <1>1, LenProperties DEF TypeOK
  <2>. HIDE DEF checkpoint
  <2>6. journal' \in Seq(RecordType) /\ Len(journal') = checkpoint.journalLen
    <3>1. \A n \in 1..checkpoint.journalLen : journal[n] \in RecordType
      BY <2>4, <2>5, ElementOfSeq
    <3>. QED BY <2>1, <2>4, <2>5, <3>1, SubSeqProperties
  <2>7. names' \in Seq(Names) /\ Len(names') = checkpoint.nameLen
    <3>1. \A n \in 1..checkpoint.nameLen : names[n] \in Names
      BY <2>4, <2>5, ElementOfSeq
    <3>. QED BY <2>1, <2>4, <2>5, <3>1, SubSeqProperties
  <2>8. /\ live' \in [Uids -> Nat]
        /\ \A u \in Uids : live'[u] # 0 => live'[u] = live[u] /\ u <= checkpoint.nextUid
    BY <2>1, <2>4, <2>5 DEF LiveAfterRollback, Uids
  <2>9. TypeOK'
    <3>1. rows' \in [Keys -> RowType]
      <4>1. checkpoint.journalLen \in Nat
        BY <2>4, <2>5
      <4>. QED BY <2>1, <2>5, <4>1, ReplayTyped
    <3>2. tokens' \in [Tokens -> {NoToken} \cup HeldToken]
      BY <1>1, <1>2 DEF TypeOK
    <3>3. timingStack' \in Seq(Tokens) /\ sessionStack' \in Seq(Tokens)
      BY <2>2 DEF Closes
    <3>. QED BY <2>1, <2>4, <2>5, <2>6, <2>7, <2>8, <3>1, <3>2, <3>3 DEF TypeOK
  <2>10. ASSUME NEW p \in 1..depth
         PROVE  /\ tokens[timingStack[p]].journalLen \in Nat
                /\ tokens[timingStack[p]].journalLen <= checkpoint.journalLen
                /\ tokens[timingStack[p]].nextUid <= checkpoint.nextUid
                /\ tokens[timingStack[p]].nameLen <= checkpoint.nameLen
                /\ tokens[timingStack[p]].nextUid <= nextUid
    <3>1. p \in DOMAIN timingStack /\ depth + 1 \in DOMAIN timingStack /\ p < depth + 1
      BY <1>1, <2>3 DEF TypeOK
    <3>2. timingStack[depth + 1] = token
      BY <2>2 DEF Closes
    <3>3. /\ tokens[timingStack[p]].journalLen <= checkpoint.journalLen
          /\ tokens[timingStack[p]].nextUid <= checkpoint.nextUid
          /\ tokens[timingStack[p]].nameLen <= checkpoint.nameLen
      BY <1>1, <3>1, <3>2 DEF StacksInLockstep, checkpoint
    <3>4. /\ tokens[timingStack[p]].journalLen \in 0..Len(journal)
          /\ tokens[timingStack[p]].nextUid \in 0..nextUid
      BY <1>1, <2>3, OpenFacts
    <3>. QED BY <2>5, <3>3, <3>4
  <2>11. StacksInLockstep'
    <3>1. depth = 0 => journal' = <<>>
      <4>1. ASSUME depth = 0 PROVE checkpoint.journalLen = 0
        BY <1>1, <2>2, <2>3, <4>1, OpenFacts DEF Closes, checkpoint
      <4>. QED BY <2>6, <4>1, EmptySeq
    <3>. QED BY <1>1, <2>1, <2>2, <2>6, <2>7, <2>10, <3>1, CloseKeepsLockstep
  <2>12. \A t \in Open' : \E p \in 1..depth :
             /\ t = timingStack[p] /\ t \in Open /\ tokens'[t] = tokens[t]
    <3>1. DOMAIN timingStack' = 1..depth
      BY <2>2 DEF Closes
    <3>2. \A p \in 1..depth : timingStack[p] \in Open
      BY <1>1, <2>3, OpenIsRange
    <3>. QED BY <2>2, <3>1, <3>2 DEF Open, Closes
  <2>13. RollbackExact'
    <3>1. SUFFICES ASSUME NEW p \in 1..depth, timingStack[p] \in Open
                   PROVE  Replayed(journal', rows', tokens[timingStack[p]].journalLen)
                              = tokens[timingStack[p]].rows
      BY <2>12 DEF RollbackExact, Undone
    <3>2. Replayed(journal', rows', tokens[timingStack[p]].journalLen)
              = Replayed(journal, rows, tokens[timingStack[p]].journalLen)
      <4>1. checkpoint.journalLen \in Nat /\ checkpoint.journalLen <= Len(journal)
        BY <2>4, <2>5
      <4>. QED BY <2>1, <2>5, <2>10, <4>1, ReplayCut
    <3>. QED BY <1>1, <3>1, <3>2 DEF RollbackExact, Undone
  <2>14. token \in Open
    BY <1>4 DEF IsOpen, Open
  <2>15. NamesResolve'
    <3>1. ASSUME NEW u \in Uids, NEW v \in Uids, live'[u] # 0
          PROVE  /\ live'[u] <= Len(names') /\ u <= nextUid'
                 /\ live'[u] = live'[v] => u = v
      <4>1. live'[u] = live[u] /\ u <= checkpoint.nextUid /\ live[u] # 0
        BY <2>8, <3>1
      <4>2. live[u] <= checkpoint.nameLen
        BY <1>1, <2>14, <4>1 DEF NamesKept, checkpoint
      <4>3. u <= nextUid
        BY <1>1, <4>1 DEF NamesResolve
      <4>4. live'[u] = live'[v] => live[u] = live[v]
        BY <2>8, <3>1, <4>1
      <4>5. live'[u] = live'[v] => u = v
        BY <1>1, <4>1, <4>4 DEF NamesResolve
      <4>. QED BY <2>1, <2>7, <4>1, <4>2, <4>3, <4>5
    <3>. QED BY <3>1 DEF NamesResolve
  <2>16. NamesKept'
    <3>1. SUFFICES ASSUME NEW p \in 1..depth, timingStack[p] \in Open, NEW u \in Uids,
                          live'[u] # 0, u <= tokens[timingStack[p]].nextUid
                   PROVE  live'[u] <= tokens[timingStack[p]].nameLen
      BY <2>12 DEF NamesKept
    <3>. QED BY <1>1, <2>8, <3>1 DEF NamesKept
  <2>. QED BY <2>9, <2>11, <2>13, <2>15, <2>16 DEF IInv
<1>. QED BY <1>3, <1>4

-----------------------------------------------------------------------------
(***************************************************************************)
(* The theorems.                                                           *)
(***************************************************************************)

\* One step per action.
LEMMA NextIInv == IInv /\ [Next]_vars => IInv'
<1>. SUFFICES ASSUME IInv, [Next]_vars PROVE IInv'
  OBVIOUS
<1>1. CASE ConstraintCheckpoint
  BY <1>1, CheckpointIInv
<1>2. CASE \E token \in Tokens : Commit(token)
  BY <1>2, CommitIInv
<1>3. CASE \E token \in Tokens : Restore(token)
  BY <1>3, RestoreIInv
<1>4. CASE \E name \in Names, value \in 1..MaxValue, master \in Keys, valid \in BOOLEAN :
             CreateClock(name, value, master, valid)
  BY <1>4, CreateClockIInv
<1>5. CASE \E value \in 1..MaxValue : SetLoad(value)
  BY <1>5, SetLoadIInv
<1>6. CASE \E clock \in Uids : DeleteClock(clock)
  BY <1>6, DeleteClockIInv
<1>7. CASE UNCHANGED vars
  <2>1. UNCHANGED <<live, names, nextUid, rows, revision, journal, timingStack,
                    sessionStack, tokens>>
    BY <1>7 DEF vars, registryVars, timingVars
  <2>2. TypeOK'
    BY <2>1 DEF IInv, TypeOK
  <2>3. StacksInLockstep'
    BY <2>1 DEF IInv, StacksInLockstep, RegistryAccepts
  <2>4. RollbackExact' /\ NamesResolve' /\ NamesKept'
    BY <2>1 DEF IInv, RollbackExact, Undone, NamesResolve, NamesKept, Open
  <2>. QED BY <2>2, <2>3, <2>4 DEF IInv
<1>. QED BY <1>1, <1>2, <1>3, <1>4, <1>5, <1>6, <1>7 DEF Next

\* The strengthened invariant holds in every reachable state.
THEOREM Invariance == Spec => []IInv
BY InitIInv, NextIInv, PTL DEF Spec

\* The session, the timing context and the registry keep their types.
THEOREM TransactionTypeCorrect == Spec => []TypeOK
<1>1. IInv => TypeOK
  BY DEF IInv
<1>. QED BY <1>1, Invariance, PTL

\* restore_constraint_checkpoint and commit_constraint_checkpoint never fail
\* between two stores: the two stacks agree and every open checkpoint lies
\* within the journal, the registry and the name table.
THEOREM TransactionLockstep == Spec => []StacksInLockstep
<1>1. IInv => StacksInLockstep
  BY DEF IInv
<1>. QED BY <1>1, Invariance, PTL

\* rollback_checkpoint gives back exactly the constraints of the checkpoint,
\* for any nesting, commit and rollback of inner transactions before it.
THEOREM TransactionRollbackExact == Spec => []RollbackExact
<1>1. IInv => RollbackExact
  BY DEF IInv
<1>. QED BY <1>1, Invariance, PTL

\* ObjectRegistry::rollback truncates the name table under no live object.
THEOREM TransactionNamesResolve == Spec => []NamesResolve
<1>1. IInv => NamesResolve
  BY DEF IInv
<1>. QED BY <1>1, Invariance, PTL

\* A step gives no dead object's UID to an object and does not lower the
\* counter that hands them out.
LEMMA UidStep ==
  ASSUME IInv, [Next]_vars
  PROVE  [/\ nextUid <= nextUid'
          /\ \A u \in Uids : (live[u] = 0 /\ u <= nextUid) => live'[u] = 0]_vars
<1>. DEFINE Kept == /\ nextUid <= nextUid'
                    /\ \A u \in Uids : (live[u] = 0 /\ u <= nextUid) => live'[u] = 0
<1>1. TypeOK /\ NamesResolve
  BY DEF IInv
<1>2. nextUid \in 0..MaxUid /\ MaxUid \in Nat /\ live \in [Uids -> Nat]
  BY <1>1, BoundsAssumption DEF TypeOK
<1>3. ASSUME live' = live, nextUid' = nextUid PROVE Kept
  BY <1>2, <1>3
<1>4. ASSUME ConstraintCheckpoint PROVE Kept
  BY <1>3, <1>4 DEF ConstraintCheckpoint, registryVars
<1>5. ASSUME NEW token \in Tokens, Commit(token) PROVE Kept
  BY <1>3, <1>5 DEF Commit, registryVars
<1>6. ASSUME NEW token \in Tokens, Restore(token) PROVE Kept
  <2>1. CASE UNCHANGED <<live, names, nextUid>>
    BY <1>3, <2>1
  <2>2. CASE RegistryRollback(tokens[token])
    BY <1>2, <2>2 DEF RegistryRollback, LiveAfterRollback, UidAfterRollback
  <2>. QED BY <1>6, <2>1, <2>2 DEF Restore, registryVars
<1>7. ASSUME NEW name \in Names, NEW value \in 1..MaxValue, NEW master \in Keys,
             NEW valid \in BOOLEAN, CreateClock(name, value, master, valid)
      PROVE  Kept
  <2>1. CASE ClockIgnored
    BY <1>3, <2>1 DEF ClockIgnored
  <2>2. CASE ClockRefused
    BY <1>2, <2>2 DEF ClockRefused
  <2>3. CASE OldObject
    BY <1>3, <2>3 DEF OldObject
  <2>4. ASSUME NEW uid \in Uids, NewObject(name, uid) PROVE Kept
    BY <1>2, <2>4 DEF NewObject, Uids
  <2>. QED BY <1>1, <1>7, <2>1, <2>2, <2>3, <2>4, CreateClockCases
<1>8. ASSUME NEW value \in 1..MaxValue, SetLoad(value) PROVE Kept
  BY <1>3, <1>8 DEF SetLoad, registryVars
<1>9. ASSUME NEW clock \in Uids, DeleteClock(clock) PROVE Kept
  <2>1. CASE UNCHANGED <<live, names, nextUid>>
    BY <1>3, <2>1
  <2>2. CASE /\ live' = [u \in Uids |-> IF u \in RemovalClosure(clock) THEN 0 ELSE live[u]]
             /\ UNCHANGED nextUid
    BY <1>2, <2>2
  <2>. QED BY <1>9, <2>1, <2>2 DEF DeleteClock, registryVars
<1>. HIDE DEF Kept
<1>10. Next => Kept
  BY <1>4, <1>5, <1>6, <1>7, <1>8, <1>9 DEF Next
<1>. QED BY <1>10 DEF Kept

\* Object identities are never reused: UIDs stay consumed through rollbacks.
THEOREM TransactionUidsNeverReused == Spec => UidsNeverReused
<1>1. IInv /\ [Next]_vars =>
          [/\ nextUid <= nextUid'
           /\ \A u \in Uids : (live[u] = 0 /\ u <= nextUid) => live'[u] = 0]_vars
  BY UidStep
<1>. QED BY <1>1, Invariance, PTL DEF Spec, UidsNeverReused

-----------------------------------------------------------------------------
(***************************************************************************)
(* Which checkpoints are open after a step.                                *)
(***************************************************************************)

\* A command leaves the checkpoints alone.
LEMMA CommandOpen ==
  ASSUME UNCHANGED <<timingStack, tokens>>
  PROVE  Open' = Open /\ \A t \in Open : tokens'[t] = tokens[t]
BY DEF Open

\* A checkpoint opens one transaction, on the state as it is.
LEMMA CheckpointOpen ==
  ASSUME IInv, ConstraintCheckpoint
  PROVE  /\ rows' = rows /\ live' = live /\ nextUid' = nextUid
         /\ \A t \in Open' :
               \/ t \in Open /\ tokens'[t] = tokens[t]
               \/ /\ tokens'[t].rows = rows /\ tokens'[t].live = live
                  /\ tokens'[t].nextUid = nextUid
<1>. DEFINE token == CHOOSE t \in Tokens : ~tokens[t].held
            fresh == [held |-> TRUE, journalLen |-> Len(journal), revision |-> revision,
                      nextUid |-> nextUid, nameLen |-> Len(names),
                      rows |-> rows, live |-> live]
<1>1. token \in Tokens
  BY DEF ConstraintCheckpoint
<1>2. /\ tokens' = [tokens EXCEPT ![token] = fresh]
      /\ timingStack' = Append(timingStack, token)
      /\ rows' = rows /\ live' = live /\ nextUid' = nextUid
  BY DEF ConstraintCheckpoint, registryVars, timingVars
<1>3. timingStack \in Seq(Tokens) /\ tokens \in [Tokens -> {NoToken} \cup HeldToken]
  BY DEF IInv, TypeOK
<1>4. /\ fresh.rows = rows /\ fresh.live = live /\ fresh.nextUid = nextUid
  OBVIOUS
<1>. HIDE DEF token, fresh
<1>5. /\ Len(timingStack) \in Nat /\ DOMAIN timingStack = 1..Len(timingStack)
      /\ DOMAIN timingStack' = 1..Len(timingStack) + 1
      /\ \A p \in 1..Len(timingStack) : timingStack'[p] = timingStack[p] /\ timingStack[p] \in Tokens
      /\ timingStack'[Len(timingStack) + 1] = token
  BY <1>1, <1>2, <1>3, AppendProperties, LenProperties, ElementOfSeq
<1>6. \A t \in Open' : t \in Open \/ t = token
  BY <1>5 DEF Open
<1>7. \A t \in Open : t \in Tokens
  BY <1>5 DEF Open
<1>8. \A t \in Tokens : tokens'[t] = IF t = token THEN fresh ELSE tokens[t]
  BY <1>1, <1>2, <1>3
<1>. QED BY <1>1, <1>2, <1>4, <1>6, <1>7, <1>8

\* A transaction that stays open when another is closed is older than it.
LEMMA CloseOpen ==
  ASSUME IInv, NEW token \in Tokens, NEW depth \in Nat, Closes(token, depth)
  PROVE  /\ token \in Open
         /\ \A t \in Open' : /\ t \in Open /\ tokens'[t] = tokens[t]
                             /\ tokens[t].nextUid <= tokens[token].nextUid
<1>1. TypeOK /\ StacksInLockstep
  BY DEF IInv
<1>2. /\ Len(timingStack) \in Nat /\ DOMAIN timingStack = 1..Len(timingStack)
      /\ DOMAIN timingStack' = 1..depth
      /\ depth + 1 \in 1..Len(timingStack) /\ timingStack[depth + 1] = token
      /\ \A p \in 1..depth : /\ p \in 1..Len(timingStack) /\ p < depth + 1
                             /\ timingStack'[p] = timingStack[p]
                             /\ tokens'[timingStack[p]] = tokens[timingStack[p]]
  BY <1>1, LenProperties DEF TypeOK, Closes
<1>3. \A p \in 1..depth : tokens[timingStack[p]].nextUid <= tokens[token].nextUid
  BY <1>1, <1>2 DEF StacksInLockstep
<1>. QED BY <1>2, <1>3 DEF Open

\* A commit touches neither rows nor objects and opens nothing.
LEMMA CommitOpen ==
  ASSUME IInv, NEW token \in Tokens, Commit(token)
  PROVE  /\ rows' = rows /\ live' = live /\ nextUid' = nextUid
         /\ \A t \in Open' : t \in Open /\ tokens'[t] = tokens[t]
<1>1. /\ tokens' = [tokens EXCEPT ![token] = NoToken]
      /\ rows' = rows /\ live' = live /\ nextUid' = nextUid
  BY DEF Commit, registryVars
<1>2. TypeOK /\ StacksInLockstep
  BY DEF IInv
<1>3. CASE ~IsOpen(timingStack, token)
  <2>1. timingStack' = timingStack
    BY <1>3 DEF Commit, TimingAccepts
  <2>2. \A p \in DOMAIN timingStack : tokens'[timingStack[p]] = tokens[timingStack[p]]
    BY <1>1, <1>2, <1>3 DEF TypeOK, IsOpen
  <2>. QED BY <1>1, <2>1, <2>2 DEF Open
<1>4. CASE IsOpen(timingStack, token)
  <2>1. /\ timingStack' = Closed(timingStack, token)
        /\ sessionStack' = Closed(sessionStack, token)
    BY <1>4, OpenIsAccepted DEF Commit
  <2>2. PICK depth \in Nat : Closes(token, depth)
    BY <1>1, <1>2, <1>4, <2>1, CloseFacts
  <2>. QED BY <1>1, <2>2, CloseOpen
<1>. QED BY <1>3, <1>4

\* A restore of an open checkpoint gives its rows back and removes the objects
\* younger than it; a stale one changes nothing.
LEMMA RestoreOpen ==
  ASSUME IInv, NEW token \in Tokens, Restore(token)
  PROVE  \/ /\ rows' = rows /\ live' = live /\ nextUid' = nextUid /\ token \notin Open
            /\ \A t \in Open' : t \in Open /\ tokens'[t] = tokens[t]
         \/ /\ rows' = tokens[token].rows /\ token \in Open
            /\ live' = [u \in Uids |-> IF u > tokens[token].nextUid THEN 0 ELSE live[u]]
            /\ nextUid' = nextUid
            /\ \A t \in Open' : /\ t \in Open /\ tokens'[t] = tokens[t]
                                /\ tokens[t].nextUid <= tokens[token].nextUid
<1>1. tokens' = [tokens EXCEPT ![token] = NoToken]
  BY DEF Restore
<1>2. TypeOK /\ StacksInLockstep
  BY DEF IInv
<1>3. CASE ~IsOpen(timingStack, token)
  <2>1. rows' = rows /\ live' = live /\ nextUid' = nextUid /\ timingStack' = timingStack
    BY <1>3 DEF Restore, TimingAccepts, registryVars, timingVars
  <2>2. \A p \in DOMAIN timingStack : tokens'[timingStack[p]] = tokens[timingStack[p]]
    BY <1>1, <1>2, <1>3 DEF TypeOK, IsOpen
  <2>3. token \notin Open
    BY <1>3 DEF Open, IsOpen
  <2>. QED BY <2>1, <2>2, <2>3 DEF Open
<1>4. CASE IsOpen(timingStack, token)
  <2>1. /\ timingStack' = Closed(timingStack, token)
        /\ sessionStack' = Closed(sessionStack, token)
        /\ live' = LiveAfterRollback(tokens[token])
        /\ rows' = Undone(tokens[token].journalLen)
        /\ nextUid' = nextUid
    BY <1>4, OpenIsAccepted DEF Restore, RegistryRollback, UidAfterRollback
  <2>2. PICK depth \in Nat : Closes(token, depth)
    BY <1>1, <1>2, <1>4, <2>1, CloseFacts
  <2>3. /\ token \in Open
        /\ \A t \in Open' : /\ t \in Open /\ tokens'[t] = tokens[t]
                            /\ tokens[t].nextUid <= tokens[token].nextUid
    BY <2>2, CloseOpen
  <2>4. rows' = tokens[token].rows
    BY <2>1, <2>3 DEF IInv, RollbackExact
  <2>. QED BY <2>1, <2>3, <2>4 DEF LiveAfterRollback
<1>. QED BY <1>3, <1>4

\* Nothing is open that nobody holds.
LEMMA OpenHeld ==
  ASSUME IInv, NEW t \in Open
  PROVE  /\ t \in Tokens /\ tokens[t].held
         /\ tokens[t].rows \in [Keys -> RowType] /\ tokens[t].nextUid \in 0..nextUid
<1>1. TypeOK /\ StacksInLockstep
  BY DEF IInv
<1>2. PICK p \in 1..Len(timingStack) : timingStack[p] = t
  BY <1>1, OpenIsRange
<1>. QED BY <1>1, <1>2, OpenFacts, HeldFacts

-----------------------------------------------------------------------------
(***************************************************************************)
(* Generated clocks and their masters, for any map of constraints.         *)
(***************************************************************************)

\* A set that contains the master of each of its generated clocks.
ClosedUp(map, S) == \A u \in S : map[u].master # 0 => map[u].master \in S

AncestorsIn(map, key) ==
    {k \in Keys : \A S \in SUBSET Keys : (key \in S /\ ClosedUp(map, S)) => k \in S}

MastersIn(map) ==
    \A u \in Uids :
        (map[u].value # 0 /\ map[u].master # 0) =>
            /\ map[map[u].master].value # 0
            /\ u \notin AncestorsIn(map, map[u].master)

\* The ancestors are the least closed set.
LEMMA AncestorsFacts ==
  ASSUME NEW map \in [Keys -> RowType], NEW key \in Keys
  PROVE  /\ key \in AncestorsIn(map, key) /\ AncestorsIn(map, key) \in SUBSET Keys
         /\ ClosedUp(map, AncestorsIn(map, key))
         /\ \A S \in SUBSET Keys : key \in S /\ ClosedUp(map, S) => AncestorsIn(map, key) \subseteq S
<1>1. key \in AncestorsIn(map, key) /\ AncestorsIn(map, key) \in SUBSET Keys
  BY DEF AncestorsIn
<1>2. \A S \in SUBSET Keys : key \in S /\ ClosedUp(map, S) => AncestorsIn(map, key) \subseteq S
  BY DEF AncestorsIn
<1>3. ASSUME NEW u \in AncestorsIn(map, key), map[u].master # 0
      PROVE  map[u].master \in AncestorsIn(map, key)
  <2>1. u \in Keys /\ map[u].master \in Keys
    BY <1>1 DEF RowType
  <2>2. ASSUME NEW S \in SUBSET Keys, key \in S, ClosedUp(map, S) PROVE map[u].master \in S
    <3>1. u \in S
      BY <1>2, <2>2
    <3>. QED BY <1>3, <2>2, <3>1 DEF ClosedUp
  <2>. QED BY <2>1, <2>2 DEF AncestorsIn
<1>4. ClosedUp(map, AncestorsIn(map, key))
  BY <1>3 DEF ClosedUp
<1>. QED BY <1>1, <1>2, <1>4

\* A closed set without a clock shows that it is not an ancestor.
LEMMA NotAncestor ==
  ASSUME NEW map \in [Keys -> RowType], NEW key \in Keys, NEW u,
         NEW S \in SUBSET Keys, key \in S, ClosedUp(map, S), u \notin S
  PROVE  u \notin AncestorsIn(map, key)
BY AncestorsFacts

\* Writing one row, below no clock generated from it, makes no cycle: a cycle
\* would run through the row that was written, and its master's ancestors do
\* not lead back to it.
LEMMA WriteKeepsMasters ==
  ASSUME NEW before \in [Keys -> RowType], NEW after \in [Keys -> RowType],
         NEW k \in Keys, MastersIn(before), after[k].value # 0,
         \A j \in Keys \ {k} : after[j] = before[j],
         after[k].master # 0 => /\ k \notin AncestorsIn(before, after[k].master)
                                /\ before[after[k].master].value # 0
  PROVE  MastersIn(after)
<1>. DEFINE master == after[k].master
            above == IF master = 0 THEN {} ELSE AncestorsIn(before, master)
<1>1. master \in Keys /\ \A j \in Keys : after[j].master \in Keys /\ before[j].master \in Keys
  BY DEF RowType
<1>2. /\ above \in SUBSET Keys /\ k \notin above /\ (master # 0 => master \in above)
      /\ ClosedUp(before, above)
  <2>1. CASE master = 0
    BY <2>1 DEF ClosedUp
  <2>2. CASE master # 0
    BY <1>1, <2>2, AncestorsFacts
  <2>. QED BY <2>1, <2>2
<1>. HIDE DEF above
<1>3. \A j \in Keys : before[j].value # 0 => after[j].value # 0
  OBVIOUS
<1>4. ASSUME NEW u \in Uids, after[u].value # 0, after[u].master # 0
      PROVE  /\ after[after[u].master].value # 0
             /\ u \notin AncestorsIn(after, after[u].master)
  <2>1. u \in Keys
    BY BoundsAssumption DEF Uids, Keys
  <2>2. CASE u = k
    <3>1. after[master].value # 0
      BY <1>1, <1>3, <1>4, <2>2
    <3>2. ClosedUp(after, above)
      BY <1>2 DEF ClosedUp
    <3>. QED BY <1>1, <1>2, <1>4, <2>2, <3>1, <3>2, NotAncestor
  <2>3. CASE u # k
    <3>. DEFINE m == before[u].master
                old == AncestorsIn(before, m)
    <3>1. after[u] = before[u] /\ m \in Keys /\ m # 0 /\ after[u].master = m
      BY <1>1, <1>4, <2>1, <2>3
    <3>2. before[m].value # 0 /\ u \notin old
      BY <1>4, <3>1 DEF MastersIn
    <3>3. /\ m \in old /\ old \in SUBSET Keys /\ ClosedUp(before, old)
          /\ \A S \in SUBSET Keys : m \in S /\ ClosedUp(before, S) => old \subseteq S
      BY <3>1, AncestorsFacts
    <3>. HIDE DEF old
    <3>4. CASE k \notin old
      <4>1. ClosedUp(after, old)
        BY <3>3, <3>4 DEF ClosedUp
      <4>. QED BY <1>3, <3>1, <3>2, <3>3, <4>1, NotAncestor
    <3>5. CASE k \in old
      <4>1. u \notin above
        <5>1. ASSUME u \in above PROVE FALSE
          <6>1. m \in above
            BY <1>2, <3>1, <5>1 DEF ClosedUp
          <6>2. old \subseteq above
            BY <1>2, <3>3, <6>1
          <6>. QED BY <1>2, <3>5, <6>2
        <5>. QED BY <5>1
      <4>2. ClosedUp(after, old \cup above)
        <5>1. ASSUME NEW v \in old \cup above, after[v].master # 0
              PROVE  after[v].master \in old \cup above
          <6>1. CASE v = k
            BY <1>2, <5>1, <6>1
          <6>2. CASE v # k
            <7>1. after[v] = before[v]
              BY <1>2, <3>3, <6>2
            <7>. QED BY <1>2, <3>3, <5>1, <7>1 DEF ClosedUp
          <6>. QED BY <6>1, <6>2
        <5>. QED BY <5>1 DEF ClosedUp
      <4>3. old \cup above \in SUBSET Keys /\ m \in old \cup above /\ u \notin old \cup above
        BY <1>2, <3>2, <3>3, <4>1
      <4>. QED BY <1>3, <3>1, <3>2, <4>2, <4>3, NotAncestor
    <3>. QED BY <3>4, <3>5
  <2>. QED BY <2>2, <2>3
<1>. QED BY <1>4 DEF MastersIn

\* Removing a set of clocks with everything generated from it leaves every
\* other clock its master.
LEMMA RemoveKeepsMasters ==
  ASSUME NEW before \in [Keys -> RowType], NEW after \in [Keys -> RowType],
         NEW removed \in SUBSET Uids, MastersIn(before),
         \A u \in Uids : before[u].value # 0 /\ before[u].master \in removed => u \in removed,
         after = [k \in Keys |-> IF k \in removed THEN NoRow ELSE before[k]]
  PROVE  MastersIn(after)
<1>1. ASSUME NEW u \in Uids, after[u].value # 0, after[u].master # 0
      PROVE  /\ after[after[u].master].value # 0
             /\ u \notin AncestorsIn(after, after[u].master)
  <2>. DEFINE m == before[u].master
  <2>1. u \in Keys
    BY BoundsAssumption DEF Uids, Keys
  <2>2. u \notin removed /\ after[u] = before[u]
    BY <1>1, <2>1 DEF NoRow
  <2>3. /\ m \in Keys /\ m \notin removed /\ before[m].value # 0
        /\ u \notin AncestorsIn(before, m) /\ after[u].master = m
    BY <1>1, <2>1, <2>2 DEF MastersIn, RowType
  <2>4. /\ m \in AncestorsIn(before, m) /\ AncestorsIn(before, m) \in SUBSET Keys
        /\ ClosedUp(before, AncestorsIn(before, m))
    BY <2>3, AncestorsFacts
  <2>5. ClosedUp(after, AncestorsIn(before, m))
    BY <2>4 DEF ClosedUp, NoRow
  <2>6. u \notin AncestorsIn(after, m)
    <3>. DEFINE S == AncestorsIn(before, m)
    <3>. HIDE DEF S
    <3>1. S \in SUBSET Keys /\ m \in S /\ ClosedUp(after, S) /\ u \notin S
      BY <2>3, <2>4, <2>5 DEF S
    <3>. QED BY <2>3, <3>1, NotAncestor
  <2>7. after[m].value # 0
    BY <2>3
  <2>. QED BY <2>3, <2>6, <2>7
<1>. QED BY <1>1 DEF MastersIn

\* The constraints a command leaves have their masters; what it wrote or
\* removed is a row or a whole family of clocks.
LEMMA CreateKeepsMasters ==
  ASSUME IInv, MastersIn(rows), NEW name \in Names, NEW value \in 1..MaxValue,
         NEW master \in Keys, NEW valid \in BOOLEAN, CreateClock(name, value, master, valid)
  PROVE  MastersIn(rows')
<1>1. TypeOK /\ NamesResolve /\ rows \in [Keys -> RowType]
  BY DEF IInv, TypeOK
<1>2. CASE rows' = rows
  BY <1>2
<1>3. ASSUME NEW uid \in Uids, ClockWritten(uid, value, master),
             master # 0 => uid \notin Ancestors(master) /\ HasRow(master)
      PROVE  MastersIn(rows')
  <2>1. uid \in Keys /\ value # 0
    BY BoundsAssumption DEF Uids, Keys
  <2>2. [value |-> value, master |-> master] \in RowType
    BY BoundsAssumption DEF RowType
  <2>3. /\ rows' \in [Keys -> RowType]
        /\ rows'[uid].value # 0 /\ rows'[uid].master = master
        /\ \A j \in Keys \ {uid} : rows'[j] = rows[j]
    BY <1>1, <1>3, <2>1, <2>2 DEF ClockWritten
  <2>4. master # 0 => uid \notin AncestorsIn(rows, master) /\ rows[master].value # 0
    BY <1>3 DEF Ancestors, AncestorsIn, ClosedUp, HasRow
  <2>. QED BY <1>1, <2>1, <2>3, <2>4, WriteKeepsMasters
<1>. QED BY <1>1, <1>2, <1>3, CreateClockCases DEF ClockIgnored, ClockRefused

\* set_load writes a row that is no clock.
LEMMA LoadKeepsMasters ==
  ASSUME IInv, MastersIn(rows), NEW value \in 1..MaxValue, SetLoad(value)
  PROVE  MastersIn(rows')
<1>1. rows \in [Keys -> RowType] /\ 0 \in Keys /\ value # 0
  BY BoundsAssumption DEF IInv, TypeOK, Keys
<1>2. CASE rows' = rows
  BY <1>2
<1>3. CASE rows' = [rows EXCEPT ![0] = [value |-> value, master |-> 0]]
  <2>1. [value |-> value, master |-> 0] \in RowType
    BY <1>1, BoundsAssumption DEF RowType
  <2>2. /\ rows' \in [Keys -> RowType] /\ rows'[0].value # 0 /\ rows'[0].master = 0
        /\ \A j \in Keys \ {0} : rows'[j] = rows[j]
    BY <1>1, <1>3, <2>1
  <2>. QED BY <1>1, <2>2, WriteKeepsMasters
<1>. QED BY <1>2, <1>3 DEF SetLoad, timingVars

\* The removal closure leaves no generated clock without its master.
LEMMA ClosureGenerated ==
  ASSUME NEW clock \in Uids
  PROVE  /\ RemovalClosure(clock) \in SUBSET Uids
         /\ \A u \in Uids : HasRow(u) /\ rows[u].master \in RemovalClosure(clock) =>
                                u \in RemovalClosure(clock)
<1>. DEFINE Family(S) == clock \in S /\ \A u \in Uids : HasRow(u) /\ rows[u].master \in S => u \in S
<1>1. RemovalClosure(clock) = {k \in Uids : \A S \in SUBSET Uids : Family(S) => k \in S}
  BY DEF RemovalClosure
<1>2. ASSUME NEW u \in Uids, HasRow(u), rows[u].master \in RemovalClosure(clock),
             NEW S \in SUBSET Uids, Family(S)
      PROVE  u \in S
  <2>1. rows[u].master \in S
    <3>. HIDE DEF Family
    <3>. QED BY <1>1, <1>2
  <2>. QED BY <1>2, <2>1
<1>. HIDE DEF Family
<1>. QED BY <1>1, <1>2

\* delete_clock takes the clocks generated from the deleted one with it.
LEMMA DeleteKeepsMasters ==
  ASSUME IInv, MastersIn(rows), NEW clock \in Uids, DeleteClock(clock)
  PROVE  MastersIn(rows')
<1>1. rows \in [Keys -> RowType] /\ NoRow \in RowType
  <2>1. NoRow \in RowType
    BY BoundsAssumption DEF NoRow, RowType, Keys
  <2>. QED BY <2>1 DEF IInv, TypeOK
<1>2. CASE rows' = rows
  BY <1>2
<1>3. CASE rows' = [k \in Keys |-> IF k \in RemovalClosure(clock) THEN NoRow ELSE rows[k]]
  <2>. DEFINE removed == RemovalClosure(clock)
  <2>1. /\ removed \in SUBSET Uids
        /\ \A u \in Uids : rows[u].value # 0 /\ rows[u].master \in removed => u \in removed
    BY ClosureGenerated DEF HasRow
  <2>. HIDE DEF removed
  <2>2. rows' = [k \in Keys |-> IF k \in removed THEN NoRow ELSE rows[k]]
    BY <1>3 DEF removed
  <2>3. rows' \in [Keys -> RowType]
    BY <1>1, <2>2
  <2>. QED BY <1>1, <2>1, <2>2, <2>3, RemoveKeepsMasters
<1>. QED BY <1>2, <1>3 DEF DeleteClock, timingVars

\* The constraints a rollback may bring back are sound as well.
MasterInv == MastersIn(rows) /\ \A t \in Open : MastersIn(tokens[t].rows)

\* Every step keeps masters, in the constraints and in what can be restored.
LEMMA MasterStep == IInv /\ MasterInv /\ [Next]_vars => MasterInv'
<1>. SUFFICES ASSUME IInv, MasterInv, [Next]_vars PROVE MasterInv'
  OBVIOUS
<1>. USE DEF MasterInv
<1>1. CASE ConstraintCheckpoint
  BY <1>1, CheckpointOpen
<1>2. CASE \E token \in Tokens : Commit(token)
  BY <1>2, CommitOpen
<1>3. CASE \E token \in Tokens : Restore(token)
  <2>1. PICK token \in Tokens : Restore(token)
    BY <1>3
  <2>2. /\ rows' = rows \/ (rows' = tokens[token].rows /\ token \in Open)
        /\ \A t \in Open' : t \in Open /\ tokens'[t] = tokens[t]
    BY <2>1, RestoreOpen
  <2>. QED BY <2>2
<1>4. ASSUME UNCHANGED <<timingStack, tokens>>, MastersIn(rows') PROVE MasterInv'
  BY <1>4, CommandOpen
<1>5. CASE \E name \in Names, value \in 1..MaxValue, master \in Keys, valid \in BOOLEAN :
             CreateClock(name, value, master, valid)
  BY <1>4, <1>5, CreateKeepsMasters DEF CreateClock
<1>6. CASE \E value \in 1..MaxValue : SetLoad(value)
  BY <1>4, <1>6, LoadKeepsMasters DEF SetLoad
<1>7. CASE \E clock \in Uids : DeleteClock(clock)
  BY <1>4, <1>7, DeleteKeepsMasters DEF DeleteClock
<1>8. CASE UNCHANGED vars
  BY <1>4, <1>8 DEF vars, timingVars
<1>. QED BY <1>1, <1>2, <1>3, <1>5, <1>6, <1>7, <1>8 DEF Next

\* No sequence of creations, replacements, deletions and rollbacks leaves a
\* generated clock without its master or makes a clock its own ancestor.
THEOREM TransactionMastersLive == Spec => []MastersLive
<1>1. Init => MasterInv
  <2>. SUFFICES ASSUME Init PROVE MasterInv
    OBVIOUS
  <2>1. Open = {}
    BY DEF Init, Open
  <2>2. \A u \in Uids : rows[u].value = 0
    BY BoundsAssumption DEF Init, NoRow, Uids, Keys
  <2>. QED BY <2>1, <2>2 DEF MasterInv, MastersIn
<1>2. MasterInv => MastersLive
  BY DEF MasterInv, MastersIn, AncestorsIn, ClosedUp, MastersLive, Ancestors, HasRow
<1>. QED BY <1>1, <1>2, MasterStep, Invariance, PTL DEF Spec

-----------------------------------------------------------------------------
(***************************************************************************)
(* The objects behind the clocks, when no clock is deleted inside an open  *)
(* transaction.                                                            *)
(***************************************************************************)

\* Every open checkpoint refers to objects that were there, are still there,
\* and stay when younger ones are removed.
ObjectInv ==
    /\ ReferencesLive
    /\ \A t \in Open : \A u \in Uids :
          /\ tokens[t].rows[u].value # 0 => live[u] # 0 /\ u <= tokens[t].nextUid
          /\ tokens[t].live[u] = IF u > tokens[t].nextUid THEN 0 ELSE live[u]

\* Every step keeps the objects of the open checkpoints.
LEMMA ObjectStep == ASSUME ~DeleteWhileOpen PROVE IInv /\ ObjectInv /\ [Next]_vars => ObjectInv'
<1>. SUFFICES ASSUME IInv, ObjectInv, [Next]_vars PROVE ObjectInv'
  OBVIOUS
<1>. USE DEF ObjectInv
<1>1. /\ TypeOK /\ NamesResolve /\ nextUid \in Nat /\ MaxUid \in Nat
      /\ live \in [Uids -> Nat] /\ rows \in [Keys -> RowType]
      /\ \A u \in Uids : u \in Nat /\ u \in Keys
  BY BoundsAssumption DEF IInv, TypeOK, Uids, Keys
<1>2. \A u \in Uids : live[u] # 0 => u <= nextUid
  BY <1>1 DEF NamesResolve
<1>3. \A t \in Open : tokens[t].nextUid \in Nat /\ tokens[t].nextUid <= nextUid
  BY <1>1, OpenHeld
<1>4. CASE ConstraintCheckpoint
  <2>1. /\ rows' = rows /\ live' = live /\ nextUid' = nextUid
        /\ \A t \in Open' :
              \/ t \in Open /\ tokens'[t] = tokens[t]
              \/ /\ tokens'[t].rows = rows /\ tokens'[t].live = live
                 /\ tokens'[t].nextUid = nextUid
    BY <1>4, CheckpointOpen
  <2>2. ReferencesLive'
    BY <2>1 DEF ReferencesLive, HasRow
  <2>3. ASSUME NEW t \in Open', NEW u \in Uids
        PROVE  /\ tokens'[t].rows[u].value # 0 => live'[u] # 0 /\ u <= tokens'[t].nextUid
               /\ tokens'[t].live[u] = IF u > tokens'[t].nextUid THEN 0 ELSE live'[u]
    <3>1. CASE t \in Open /\ tokens'[t] = tokens[t]
      BY <2>1, <3>1
    <3>2. CASE /\ tokens'[t].rows = rows /\ tokens'[t].live = live
               /\ tokens'[t].nextUid = nextUid
      <4>1. rows[u].value # 0 => live[u] # 0
        BY DEF ReferencesLive, HasRow
      <4>2. u > nextUid => live[u] = 0
        BY <1>1, <1>2
      <4>. QED BY <1>2, <2>1, <3>2, <4>1, <4>2
    <3>. QED BY <2>1, <3>1, <3>2
  <2>. QED BY <2>2, <2>3
<1>5. CASE \E token \in Tokens : Commit(token)
  <2>1. /\ rows' = rows /\ live' = live
        /\ \A t \in Open' : t \in Open /\ tokens'[t] = tokens[t]
    BY <1>5, CommitOpen
  <2>. QED BY <2>1 DEF ReferencesLive, HasRow
<1>6. CASE \E token \in Tokens : Restore(token)
  <2>1. PICK token \in Tokens : Restore(token)
    BY <1>6
  <2>2. CASE /\ rows' = rows /\ live' = live
             /\ \A t \in Open' : t \in Open /\ tokens'[t] = tokens[t]
    BY <2>2 DEF ReferencesLive, HasRow
  <2>3. CASE /\ rows' = tokens[token].rows /\ token \in Open
             /\ live' = [u \in Uids |-> IF u > tokens[token].nextUid THEN 0 ELSE live[u]]
             /\ \A t \in Open' : /\ t \in Open /\ tokens'[t] = tokens[t]
                                 /\ tokens[t].nextUid <= tokens[token].nextUid
    <3>1. ASSUME NEW u \in Uids, rows'[u].value # 0 PROVE live'[u] # 0
      <4>1. live[u] # 0 /\ u <= tokens[token].nextUid /\ tokens[token].nextUid \in Nat /\ u \in Nat
        BY <1>1, <1>3, <2>3, <3>1
      <4>2. ~(u > tokens[token].nextUid)
        BY <4>1
      <4>. QED BY <2>3, <4>1, <4>2
    <3>2. ASSUME NEW t \in Open', NEW u \in Uids
          PROVE  /\ tokens'[t].rows[u].value # 0 => live'[u] # 0 /\ u <= tokens'[t].nextUid
                 /\ tokens'[t].live[u] = IF u > tokens'[t].nextUid THEN 0 ELSE live'[u]
      <4>1. /\ t \in Open /\ tokens'[t] = tokens[t]
            /\ tokens[t].nextUid <= tokens[token].nextUid
            /\ tokens[t].nextUid \in Nat /\ tokens[token].nextUid \in Nat /\ u \in Nat
        BY <1>1, <1>3, <2>3
      <4>2. u <= tokens[t].nextUid => live'[u] = live[u]
        BY <2>3, <4>1
      <4>3. u > tokens[t].nextUid \/ u <= tokens[t].nextUid
        BY <4>1
      <4>. QED BY <4>1, <4>2, <4>3
    <3>. QED BY <3>1, <3>2 DEF ReferencesLive, HasRow
  <2>. QED BY <2>1, <2>2, <2>3, RestoreOpen
<1>7. ASSUME UNCHANGED <<timingStack, tokens>>, ReferencesLive',
             \A t \in Open, u \in Uids : u <= tokens[t].nextUid => live'[u] = live[u]
      PROVE  ObjectInv'
  <2>1. Open' = Open /\ \A t \in Open : tokens'[t] = tokens[t]
    BY <1>7, CommandOpen
  <2>2. ASSUME NEW t \in Open, NEW u \in Uids
        PROVE  /\ tokens[t].rows[u].value # 0 => live'[u] # 0 /\ u <= tokens[t].nextUid
               /\ tokens[t].live[u] = IF u > tokens[t].nextUid THEN 0 ELSE live'[u]
    <3>1. u > tokens[t].nextUid \/ u <= tokens[t].nextUid
      BY <1>1, <1>3
    <3>. QED BY <1>7, <3>1
  <2>. QED BY <1>7, <2>1, <2>2
<1>8. CASE \E name \in Names, value \in 1..MaxValue, master \in Keys, valid \in BOOLEAN :
             CreateClock(name, value, master, valid)
  <2>1. PICK name \in Names, value \in 1..MaxValue, master \in Keys, valid \in BOOLEAN :
                CreateClock(name, value, master, valid)
    BY <1>8
  <2>2. UNCHANGED <<timingStack, tokens>>
    BY <2>1 DEF CreateClock
  <2>3. CASE live' = live /\ rows' = rows
    BY <1>7, <2>2, <2>3 DEF ReferencesLive, HasRow
  <2>4. ASSUME NEW uid \in Uids, OldObject \/ NewObject(name, uid),
               ClockWritten(uid, value, master), live'[uid] # 0
        PROVE  ObjectInv'
    <3>1. \A u \in Uids : u # uid => rows'[u] = rows[u] /\ live'[u] = live[u]
      BY <1>1, <2>4 DEF ClockWritten, OldObject, NewObject
    <3>2. ReferencesLive'
      BY <2>4, <3>1 DEF ReferencesLive, HasRow
    <3>3. ASSUME NEW t \in Open, NEW u \in Uids, u <= tokens[t].nextUid PROVE live'[u] = live[u]
      <4>1. CASE OldObject
        BY <4>1 DEF OldObject
      <4>2. CASE NewObject(name, uid)
        <5>1. uid = nextUid + 1
          BY <4>2 DEF NewObject
        <5>2. u # uid
          BY <1>1, <1>3, <3>3, <5>1
        <5>. QED BY <3>1, <5>2
      <4>. QED BY <2>4, <4>1, <4>2
    <3>. QED BY <1>7, <2>2, <3>2, <3>3
  <2>. QED BY <1>1, <2>1, <2>3, <2>4, CreateClockCases DEF ClockIgnored, ClockRefused
<1>9. CASE \E value \in 1..MaxValue : SetLoad(value)
  <2>1. PICK value \in 1..MaxValue : SetLoad(value)
    BY <1>9
  <2>2. UNCHANGED <<timingStack, tokens, live>>
    BY <2>1 DEF SetLoad, registryVars
  <2>3. \A u \in Uids : rows'[u] = rows[u]
    <3>1. \A u \in Uids : u # 0
      BY BoundsAssumption DEF Uids
    <3>. QED BY <1>1, <2>1, <3>1 DEF SetLoad, timingVars
  <2>. QED BY <1>7, <2>2, <2>3 DEF ReferencesLive, HasRow
<1>10. CASE \E clock \in Uids : DeleteClock(clock)
  <2>1. PICK clock \in Uids : DeleteClock(clock)
    BY <1>10
  <2>2. UNCHANGED <<timingStack, tokens>> /\ timingStack = <<>>
    BY <2>1 DEF DeleteClock
  <2>3. Open = {}
    BY <2>2 DEF Open
  <2>4. ReferencesLive'
    <3>1. CASE UNCHANGED <<live, rows>>
      BY <3>1 DEF ReferencesLive, HasRow
    <3>2. CASE /\ live' = [u \in Uids |-> IF u \in RemovalClosure(clock) THEN 0 ELSE live[u]]
               /\ rows' = [k \in Keys |-> IF k \in RemovalClosure(clock) THEN NoRow ELSE rows[k]]
      <4>1. \A u \in Uids : IF u \in RemovalClosure(clock)
                            THEN rows'[u].value = 0
                            ELSE rows'[u] = rows[u] /\ live'[u] = live[u]
        BY <1>1, <3>2 DEF NoRow
      <4>. QED BY <4>1 DEF ReferencesLive, HasRow
    <3>. QED BY <2>1, <3>1, <3>2 DEF DeleteClock, registryVars, timingVars
  <2>. QED BY <1>7, <2>2, <2>3, <2>4
<1>11. CASE UNCHANGED vars
  BY <1>7, <1>11 DEF vars, registryVars, timingVars, ReferencesLive, HasRow
<1>. QED BY <1>4, <1>5, <1>6, <1>8, <1>9, <1>10, <1>11 DEF Next

\* Nothing is registered or open in a new session.
LEMMA InitObjects == Init => ObjectInv
<1>. SUFFICES ASSUME Init PROVE ObjectInv
  OBVIOUS
<1>1. Open = {}
  BY DEF Init, Open
<1>2. \A u \in Uids : rows[u].value = 0
  BY BoundsAssumption DEF Init, NoRow, Uids, Keys
<1>. QED BY <1>1, <1>2 DEF ObjectInv, ReferencesLive, HasRow

\* As long as delete_clock is not issued inside an open transaction, a clock
\* constraint never refers to a removed object, whatever is rolled back.
THEOREM TransactionReferencesLive == ASSUME ~DeleteWhileOpen PROVE Spec => []ReferencesLive
<1>1. IInv /\ ObjectInv /\ [Next]_vars => ObjectInv'
  BY ObjectStep
<1>2. ObjectInv => ReferencesLive
  BY DEF ObjectInv
<1>. QED BY <1>1, <1>2, InitObjects, Invariance, PTL DEF Spec

\* Under the same condition, restoring an open checkpoint gives back exactly the
\* objects it was taken with, as the comment on constraint_checkpoint says.
THEOREM TransactionObjectsRestored == ASSUME ~DeleteWhileOpen PROVE Spec => ObjectsRestored
<1>1. IInv /\ ObjectInv /\ [Next]_vars => ObjectInv'
  BY ObjectStep
<1>2. IInv /\ ObjectInv =>
          [\A t \in Open : (Restore(t) /\ tokens[t].held) => live' = tokens[t].live]_vars
  <2>. SUFFICES ASSUME IInv, ObjectInv, NEW t \in Open, Restore(t)
                PROVE  live' = tokens[t].live
    OBVIOUS
  <2>1. t \in Tokens /\ tokens[t].held /\ tokens[t].live \in [Uids -> Nat]
    <3>1. t \in Tokens /\ tokens[t].held
      BY OpenHeld
    <3>2. tokens[t] \in {NoToken} \cup HeldToken /\ tokens[t] # NoToken
      BY <3>1 DEF IInv, TypeOK, NoToken
    <3>3. tokens[t] \in HeldToken
      BY <3>2
    <3>. QED BY <3>1, <3>3 DEF HeldToken
  <2>2. live' = [u \in Uids |-> IF u > tokens[t].nextUid THEN 0 ELSE live[u]]
    BY <2>1, RestoreOpen
  <2>. QED BY <2>1, <2>2 DEF ObjectInv
<1>. QED BY <1>1, <1>2, InitObjects, Invariance, PTL DEF Spec, ObjectsRestored
=============================================================================
