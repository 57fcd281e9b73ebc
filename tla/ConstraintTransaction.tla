----------------------- MODULE ConstraintTransaction ------------------------
(***************************************************************************)
(* Nested transactions over constraint-owned session state                 *)
(* (opto-session/src/state.rs: ConstraintCheckpoint) and the three stores  *)
(* a checkpoint spans: the session's stack of open transactions, the       *)
(* timing context with its undo journal and its own stack                  *)
(* (opto-timing/src/constraints), and the object registry, which rolls     *)
(* back by UID (opto-db/src/object/registry.rs).  read_sdc runs a whole    *)
(* file inside one checkpoint; create_clock opens one of its own.          *)
(*                                                                         *)
(* A timing constraint is a row of its owner: row 0 is the load of a port, *)
(* row u the clock of object u, with the master of a generated clock.  A   *)
(* checkpoint token is a Rust value that commit and restore consume.       *)
(***************************************************************************)
EXTENDS Integers, Sequences

CONSTANTS
    Names,               \* the clock names scripts use
    MaxValue,            \* constraint values are 1..MaxValue; 0 is no row
    MaxUid,              \* the last object UID (u64::MAX)
    MaxRevision,         \* the last timing revision
    MaxCheckpoints,      \* tokens held at one time
    DeleteWhileOpen      \* delete_clock is issued inside open transactions too

Uids == 1..MaxUid
Keys == 0..MaxUid
Tokens == 1..MaxCheckpoints
RowType == [value : 0..MaxValue, master : Keys]
RecordType == UNION {[owners -> RowType] : owners \in SUBSET Keys}
NoRow == [value |-> 0, master |-> 0]
NoToken == [held |-> FALSE]

ASSUME BoundsAssumption ==
    /\ MaxValue \in Nat /\ MaxUid \in Nat /\ MaxRevision \in Nat
    /\ MaxCheckpoints \in Nat /\ DeleteWhileOpen \in BOOLEAN

VARIABLES
    live,            \* registry: the name index of every live object, 0 if dead
    names,           \* the name table, in interning order
    nextUid,         \* the last UID handed out
    rows,            \* the timing constraints, by owner
    revision,        \* the timing revision
    journal,         \* TimingUndo records, one per command
    timingStack,     \* TimingContext::transactions
    sessionStack,    \* ConstraintTransactions::active
    tokens           \* the checkpoints callers hold

registryVars == <<live, names, nextUid>>
timingVars == <<rows, revision, journal>>
vars == <<registryVars, timingVars, timingStack, sessionStack, tokens>>

Init ==
    /\ live = [u \in Uids |-> 0] /\ names = <<>> /\ nextUid = 0
    /\ rows = [k \in Keys |-> NoRow] /\ revision = 0 /\ journal = <<>>
    /\ timingStack = <<>> /\ sessionStack = <<>>
    /\ tokens = [t \in Tokens |-> NoToken]

-----------------------------------------------------------------------------
(***************************************************************************)
(* The object registry.                                                    *)
(***************************************************************************)

\* intern: the object of a name, and the index the name has or would get.
NameIndex(name) ==
    IF \E n \in DOMAIN names : names[n] = name
    THEN CHOOSE n \in DOMAIN names : names[n] = name
    ELSE Len(names) + 1

Registered(name) == {u \in Uids : live[u] # 0 /\ live[u] = NameIndex(name)}

\* UID exhaustion, found before anything changes.
InternFails(name) == Registered(name) = {} /\ nextUid = MaxUid

InternedUid(name) ==
    IF Registered(name) = {} THEN nextUid + 1 ELSE CHOOSE u \in Registered(name) : TRUE

\* Mutant: the last UIDs of a rolled-back transaction are used again.
UidAfterRollbackReused(checkpoint) == checkpoint.nextUid

\* UIDs stay consumed after a rollback.
UidAfterRollback(checkpoint) == nextUid

\* Mutant: the first object created after the checkpoint survives.
LiveAfterRollbackKeepsFirst(checkpoint) ==
    [u \in Uids |-> IF u > checkpoint.nextUid + 1 THEN 0 ELSE live[u]]

\* Objects younger than the checkpoint are removed; no other is touched.
LiveAfterRollback(checkpoint) ==
    [u \in Uids |-> IF u > checkpoint.nextUid THEN 0 ELSE live[u]]

RegistryRollback(checkpoint) ==
    /\ live' = LiveAfterRollback(checkpoint)
    /\ names' = SubSeq(names, 1, checkpoint.nameLen)
    /\ nextUid' = UidAfterRollback(checkpoint)

RegistryAccepts(checkpoint) ==
    checkpoint.nextUid <= nextUid /\ checkpoint.nameLen <= Len(names)

-----------------------------------------------------------------------------
(***************************************************************************)
(* The timing context.                                                     *)
(***************************************************************************)

HasRow(key) == rows[key].value # 0

\* record_undo, for the rows a command replaces: nothing without a transaction.
Record(owners) ==
    journal' = IF timingStack = <<>> THEN journal
               ELSE Append(journal, [k \in owners |-> rows[k]])

\* The records after a length that hold a row, and the oldest of them.
RecordsOf(records, length, key) ==
    {n \in length + 1..Len(records) : key \in DOMAIN records[n]}
Oldest(at) == CHOOSE n \in at : \A m \in at : n <= m

\* Popping records down to a length applies the oldest one of each row last.
Replayed(records, current, length) ==
    [k \in Keys |->
        LET at == RecordsOf(records, length, k)
        IN  IF at = {} THEN current[k] ELSE records[Oldest(at)][k]]

\* Mutant: the first record after the checkpoint stays in the journal.
UndoneStopsEarly(length) == Replayed(journal, rows, length + 1)

Undone(length) == Replayed(journal, rows, length)

\* The masters above a clock, itself included: the least set closed upwards.
Ancestors(key) ==
    {k \in Keys : \A S \in SUBSET Keys :
        (key \in S /\ \A u \in S : rows[u].master # 0 => rows[u].master \in S) => k \in S}

\* Mutant: only the selected clock.
RemovalClosureShallow(clock) == {clock}

\* clock_removal_closure: the clock and every clock generated from it.
RemovalClosure(clock) ==
    {k \in Uids : \A S \in SUBSET Uids :
        (clock \in S /\ \A u \in Uids : HasRow(u) /\ rows[u].master \in S => u \in S) => k \in S}

-----------------------------------------------------------------------------
(***************************************************************************)
(* Checkpoints.                                                            *)
(***************************************************************************)

IsOpen(stack, token) == \E p \in DOMAIN stack : stack[p] = token

\* Mutant: only the innermost transaction is closed.
ClosedInnermost(stack, token) == SubSeq(stack, 1, Len(stack) - 1)

\* Closing a transaction closes every one nested beneath it.
Closed(stack, token) ==
    SubSeq(stack, 1, (CHOOSE p \in DOMAIN stack : stack[p] = token) - 1)

\* checkpoint_position: the transaction is open and its boundary still exists.
TimingAccepts(token) ==
    IsOpen(timingStack, token) /\ tokens[token].journalLen <= Len(journal)

\* constraint_checkpoint.  Identities are fresh; the model reuses those of
\* consumed tokens, which nobody can present again.  The last two fields are
\* history: what the state was.
ConstraintCheckpoint ==
    /\ \E t \in Tokens : ~tokens[t].held
    /\ LET token == CHOOSE t \in Tokens : ~tokens[t].held
       IN  /\ tokens' = [tokens EXCEPT ![token] =
                  [held |-> TRUE, journalLen |-> Len(journal), revision |-> revision,
                   nextUid |-> nextUid, nameLen |-> Len(names),
                   rows |-> rows, live |-> live]]
           /\ timingStack' = Append(timingStack, token)
           /\ sessionStack' = Append(sessionStack, token)
    /\ UNCHANGED <<registryVars, timingVars>>

\* Mutant: every commit forgets the journal.
JournalAfterCommitDropped(remaining) == <<>>

\* The journal is dropped with the outermost transaction only.
JournalAfterCommit(remaining) == IF remaining = <<>> THEN <<>> ELSE journal

\* commit_constraint_checkpoint; a stale token changes nothing and is gone.
Commit(token) ==
    /\ tokens[token].held
    /\ tokens' = [tokens EXCEPT ![token] = NoToken]
    /\ IF TimingAccepts(token)
       THEN /\ timingStack' = Closed(timingStack, token)
            /\ journal' = JournalAfterCommit(timingStack')
            /\ sessionStack' = Closed(sessionStack, token)
       ELSE UNCHANGED <<journal, timingStack, sessionStack>>
    /\ UNCHANGED <<registryVars, rows, revision>>

\* restore_constraint_checkpoint: every store validates before any rolls back.
Restore(token) ==
    LET checkpoint == tokens[token]
    IN  /\ checkpoint.held
        /\ tokens' = [tokens EXCEPT ![token] = NoToken]
        /\ IF TimingAccepts(token) /\ RegistryAccepts(checkpoint)
           THEN /\ RegistryRollback(checkpoint)
                /\ rows' = Undone(checkpoint.journalLen)
                /\ journal' = SubSeq(journal, 1, checkpoint.journalLen)
                /\ revision' = checkpoint.revision
                /\ timingStack' = Closed(timingStack, token)
                /\ sessionStack' = Closed(sessionStack, token)
           ELSE UNCHANGED <<registryVars, timingVars, timingStack, sessionStack>>

-----------------------------------------------------------------------------
(***************************************************************************)
(* The commands.                                                           *)
(***************************************************************************)

\* A generated clock is created and then marked: two revisions, reserved
\* before the first row changes.
RevisionAfterClock(master) == IF master = 0 THEN revision + 1 ELSE revision + 2

\* What create_clock_with_add and create_generated_clock accept.
TimingAcceptsClock(uid, master) ==
    /\ RevisionAfterClock(master) <= MaxRevision
    /\ master # 0 => uid \notin Ancestors(master) /\ HasRow(master)

\* create_clock_with_options and create_generated_clock: an inner transaction
\* interns the object and writes the clock.  Its commit keeps both, with the
\* undo record only if an outer transaction is open; its restore removes the
\* object again, though not its UID.  Invalid options are seen by the timing
\* context, after the object exists.
CreateClock(name, value, master, valid) ==
    LET uid == InternedUid(name)
        new == Registered(name) = {}
    IN  /\ IF InternFails(name)
           THEN UNCHANGED <<registryVars, timingVars>>
           ELSE IF valid /\ TimingAcceptsClock(uid, master)
           THEN /\ live' = [u \in Uids |-> IF u = uid THEN NameIndex(name) ELSE live[u]]
                /\ names' = IF NameIndex(name) > Len(names) THEN Append(names, name) ELSE names
                /\ nextUid' = IF new THEN uid ELSE nextUid
                /\ rows' = [rows EXCEPT ![uid] = [value |-> value, master |-> master]]
                /\ Record({uid})
                /\ revision' = RevisionAfterClock(master)
           ELSE /\ nextUid' = IF new THEN uid ELSE nextUid
                /\ UNCHANGED <<live, names, timingVars>>
        /\ UNCHANGED <<timingStack, sessionStack, tokens>>

\* set_load.
SetLoad(value) ==
    /\ IF revision < MaxRevision
       THEN /\ rows' = [rows EXCEPT ![0] = [value |-> value, master |-> 0]]
            /\ Record({0})
            /\ revision' = revision + 1
       ELSE UNCHANGED timingVars
    /\ UNCHANGED <<registryVars, timingStack, sessionStack, tokens>>

\* delete_clocks and apply_removals: timing prepares (which reserves the next
\* revision), the registry refuses objects that are not live, then both edit.
\* Clock objects carry no switching activity, so power has nothing to remove.
DeleteClock(clock) ==
    LET removed == RemovalClosure(clock)
    IN  /\ HasRow(clock)
        /\ timingStack = <<>> \/ DeleteWhileOpen
        /\ IF revision < MaxRevision /\ \A u \in removed : live[u] # 0
           THEN /\ live' = [u \in Uids |-> IF u \in removed THEN 0 ELSE live[u]]
                /\ rows' = [k \in Keys |-> IF k \in removed THEN NoRow ELSE rows[k]]
                /\ Record(removed)
                /\ revision' = revision + 1
                /\ UNCHANGED <<names, nextUid>>
           ELSE UNCHANGED <<registryVars, timingVars>>
        /\ UNCHANGED <<timingStack, sessionStack, tokens>>

Next ==
    \/ ConstraintCheckpoint
    \/ \E token \in Tokens : Commit(token)
    \/ \E token \in Tokens : Restore(token)
    \/ \E name \in Names, value \in 1..MaxValue, master \in Keys, valid \in BOOLEAN :
          CreateClock(name, value, master, valid)
    \/ \E value \in 1..MaxValue : SetLoad(value)
    \/ \E clock \in Uids : DeleteClock(clock)

Spec == Init /\ [][Next]_vars

-----------------------------------------------------------------------------
(***************************************************************************)
(* Properties.                                                             *)
(***************************************************************************)

HeldToken ==
    [held : {TRUE}, journalLen : Nat, revision : 0..MaxRevision, nextUid : 0..MaxUid,
     nameLen : Nat, rows : [Keys -> RowType], live : [Uids -> Nat]]

\* Type correctness of the stores and of the tokens callers hold.
TypeOK ==
    /\ live \in [Uids -> Nat] /\ names \in Seq(Names) /\ nextUid \in 0..MaxUid
    /\ rows \in [Keys -> RowType] /\ revision \in 0..MaxRevision
    /\ journal \in Seq(RecordType)
    /\ timingStack \in Seq(Tokens) /\ sessionStack \in Seq(Tokens)
    /\ tokens \in [Tokens -> {NoToken} \cup HeldToken]

Open == {timingStack[p] : p \in DOMAIN timingStack}

\* The session's and the timing context's stacks agree, so a token timing has
\* accepted is never missing from the session's stack, and every open token
\* is held and lies within the journal, the registry and the name table, outer
\* ones below inner ones: none of the later steps of commit and restore can
\* fail after an earlier one succeeded.
StacksInLockstep ==
    /\ sessionStack = timingStack
    /\ timingStack = <<>> => journal = <<>>
    /\ \A p, q \in DOMAIN timingStack : timingStack[p] = timingStack[q] => p = q
    /\ \A p \in DOMAIN timingStack :
          /\ tokens[timingStack[p]].held
          /\ tokens[timingStack[p]].journalLen <= Len(journal)
          /\ p = 1 => tokens[timingStack[p]].journalLen = 0
          /\ RegistryAccepts(tokens[timingStack[p]])
    /\ \A p, q \in DOMAIN timingStack :
          p < q =>
              LET outer == tokens[timingStack[p]]  inner == tokens[timingStack[q]]
              IN  /\ outer.journalLen <= inner.journalLen
                  /\ outer.nextUid <= inner.nextUid
                  /\ outer.nameLen <= inner.nameLen

\* However transactions nest, commit and roll back, undoing to any open
\* checkpoint gives exactly the constraints it was taken with.
RollbackExact ==
    \A t \in Open : Undone(tokens[t].journalLen) = tokens[t].rows

\* A rollback truncates the name table without pulling a name from under a
\* live object, and a name belongs to one object.
NamesResolve ==
    \A u, v \in Uids :
        live[u] # 0 =>
            /\ live[u] <= Len(names)
            /\ u <= nextUid
            /\ live[u] = live[v] => u = v

\* Every generated clock has its master, and no clock is its own ancestor,
\* whatever was replaced, deleted or rolled back in between.
MastersLive ==
    \A u \in Uids :
        (HasRow(u) /\ rows[u].master # 0) =>
            /\ HasRow(rows[u].master)
            /\ u \notin Ancestors(rows[u].master)

\* An object that is gone stays gone: no step gives its UID to another object,
\* not even after a rollback.
UidsNeverReused ==
    [][/\ nextUid <= nextUid'
       /\ \A u \in Uids : (live[u] = 0 /\ u <= nextUid) => live'[u] = 0]_vars

\* A clock constraint refers to an object that is live in the registry.
ReferencesLive == \A u \in Uids : HasRow(u) => live[u] # 0

\* "restoring rolls back constraints, object registration, and caches":
\* restoring an open checkpoint gives back its objects.
ObjectsRestored ==
    [][\A t \in Open :
          (Restore(t) /\ tokens[t].held) => live' = tokens[t].live]_vars

=============================================================================
