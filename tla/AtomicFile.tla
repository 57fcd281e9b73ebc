----------------------------- MODULE AtomicFile -----------------------------
(***************************************************************************)
(* write_atomically (opto-session/src/use_case/atomic_file.rs), the file   *)
(* replacement behind write_sdc, write_hdl and write_checkpoint: write a   *)
(* new temporary file next to the target, sync it, rename it over the      *)
(* target and sync the directory.  Processes write the same target at the  *)
(* same time; a process may be killed and the machine may lose power       *)
(* between any two steps.  A restarted process may get its old identifier  *)
(* back and starts its temporary-name sequence at zero, so it meets the    *)
(* files its former life left.  Processes alive at the same time have      *)
(* different identifiers: they share one process-identifier space.         *)
(*                                                                         *)
(* The file system is external: create_new is exclusive, rename is atomic, *)
(* file contents survive a power loss once the file is synced, and an      *)
(* entry's last change survives for certain once the directory is synced.  *)
(***************************************************************************)
EXTENDS Integers, FiniteSets

CONSTANTS
    Processes,     \* process identifiers
    MaxSequence,   \* temporary names tried by one process life
    MaxAttempts,   \* temporary names tried by one call (32)
    MaxWrites,     \* renames over the target
    PathKinds,     \* the target's path: "qualified" or "bare"
    IoFaults       \* I/O calls may fail

Temporaries == Processes \X (0..MaxSequence)
Target == <<>>
Entries == Temporaries \cup {Target}
None == [present |-> FALSE]
\* A file that a call made, one that an earlier call left, and the first target.
\* earlier: it holds what an earlier call wrote.
Empty == [present |-> TRUE, complete |-> FALSE, synced |-> FALSE, earlier |-> FALSE, version |-> 0]
Leftover == [Empty EXCEPT !.earlier = TRUE]
Old == [Empty EXCEPT !.complete = TRUE, !.synced = TRUE]

ASSUME WritesAssumption ==
    /\ MaxSequence \in Nat /\ MaxAttempts \in Nat /\ MaxWrites \in Nat
    /\ PathKinds \subseteq {"qualified", "bare"}
    /\ IoFaults \in BOOLEAN

VARIABLES
    directory,     \* what the entries name now
    disk,          \* what they name after a power loss for certain
    pc, path,      \* where each process's call stands, and its path
    sequence,      \* TEMP_FILE_SEQUENCE of each process
    attempts,      \* the candidates this call tried
    temporary,     \* temporary_path
    failed,        \* the call's pending error
    writes,        \* renames so far
    confirmed,     \* the newest version a successful call promised
    abandoned      \* temporaries a dead process or a failed remove left

vars == <<directory, disk, pc, path, sequence, attempts, temporary, failed,
          writes, confirmed, abandoned>>
storage == <<directory, disk>>
history == <<writes, confirmed, abandoned>>

Init ==
    /\ directory = [e \in Entries |-> IF e = Target THEN Old ELSE None]
    /\ disk = directory
    /\ pc = [p \in Processes |-> "idle"]
    /\ path \in [Processes -> PathKinds]
    /\ sequence = [p \in Processes |-> 0]
    /\ attempts = [p \in Processes |-> 0]
    /\ temporary = [p \in Processes |-> Target]
    /\ failed = [p \in Processes |-> FALSE]
    /\ writes = 0 /\ confirmed = 0 /\ abandoned = {}

\* Nobody reads the contents of a temporary whose writer is gone: only the
\* presence of such a file matters.
Image(entries) ==
    [e \in Entries |->
        IF e # Target /\ entries[e].present THEN Leftover ELSE entries[e]]

Goto(p, label) == pc' = [pc EXCEPT ![p] = label]

\* A call's locals die with the call.
LocalsGone(gone) ==
    /\ attempts' = [p \in Processes |-> IF p \in gone THEN 0 ELSE attempts[p]]
    /\ temporary' = [p \in Processes |-> IF p \in gone THEN Target ELSE temporary[p]]
    /\ failed' = [p \in Processes |-> IF p \in gone THEN FALSE ELSE failed[p]]

Faults == IF IoFaults THEN BOOLEAN ELSE {FALSE}

\* The call starts.  (A path without a file name is refused at once.)
Begin(p) ==
    /\ pc[p] = "idle" /\ writes < MaxWrites
    /\ Goto(p, "create")
    /\ UNCHANGED <<storage, history, path, sequence, attempts, temporary, failed>>

\* Mutant: open without create_new, which refuses no name.
ExistsNever(candidate) == FALSE

\* create_new refuses a name that exists.
Exists(candidate) == directory[candidate].present

\* An open that is not refused: a new file is empty, another is not truncated.
Opened(entry) == IF entry.present THEN entry ELSE Empty

Candidate(p) == <<p, sequence[p]>>

\* One candidate: open fails, the name is taken, or the file is made.
TryCandidate(p) ==
    LET candidate == Candidate(p)
    IN  \/ /\ IoFaults
           /\ Goto(p, "idle")
           /\ LocalsGone({p})
           /\ UNCHANGED <<directory, abandoned>>
        \/ /\ Exists(candidate)
           /\ attempts' = [attempts EXCEPT ![p] = @ + 1]
           /\ UNCHANGED <<directory, pc, temporary, failed, abandoned>>
        \/ /\ ~Exists(candidate)
           /\ directory' = [directory EXCEPT ![candidate] = Opened(@)]
           /\ attempts' = [attempts EXCEPT ![p] = @ + 1]
           /\ temporary' = [temporary EXCEPT ![p] = candidate]
           /\ abandoned' = abandoned \ {candidate}
           /\ Goto(p, "write")
           /\ UNCHANGED failed

\* One round of the loop takes a number and tries its name; after the last
\* round the call gives up.
CreateTemporary(p) ==
    /\ pc[p] = "create"
    /\ \/ /\ attempts[p] = MaxAttempts
          /\ Goto(p, "idle")
          /\ LocalsGone({p})
          /\ UNCHANGED <<directory, sequence, abandoned>>
       \/ /\ attempts[p] < MaxAttempts /\ sequence[p] <= MaxSequence
          /\ sequence' = [sequence EXCEPT ![p] = @ + 1]
          /\ TryCandidate(p)
    /\ UNCHANGED <<disk, writes, confirmed, path>>

\* The writer callback fills the file, or fails part of the way.
Write(p) ==
    /\ pc[p] = "write"
    /\ \E fault \in Faults :
         /\ directory' = [directory EXCEPT ![temporary[p]].complete = ~fault]
         /\ failed' = [failed EXCEPT ![p] = fault]
         /\ Goto(p, IF fault THEN "finish" ELSE "sync")
    /\ UNCHANGED <<disk, history, path, sequence, attempts, temporary>>

\* Mutant: the contents are left to the kernel.
SyncedNever(entry) == entry

Synced(entry) == [entry EXCEPT !.synced = TRUE]

\* sync_all.
Sync(p) ==
    /\ pc[p] = "sync"
    /\ \E fault \in Faults :
         /\ directory' = IF fault THEN directory
                         ELSE [directory EXCEPT ![temporary[p]] = Synced(@)]
         /\ failed' = [failed EXCEPT ![p] = fault]
         /\ Goto(p, IF fault THEN "finish" ELSE "rename")
    /\ UNCHANGED <<disk, history, path, sequence, attempts, temporary>>

Rename(p) ==
    /\ pc[p] = "rename"
    /\ \E fault \in Faults :
         IF fault
         THEN /\ failed' = [failed EXCEPT ![p] = TRUE]
              /\ Goto(p, "finish")
              /\ UNCHANGED <<directory, writes>>
         ELSE /\ directory' = [directory EXCEPT
                    ![Target] = [directory[temporary[p]] EXCEPT !.version = writes + 1],
                    ![temporary[p]] = None]
              /\ writes' = writes + 1
              /\ Goto(p, "directory")
              /\ UNCHANGED failed
    /\ UNCHANGED <<disk, confirmed, abandoned, path, sequence, attempts, temporary>>

\* Mutant: the directory is not synced.
DiskAfterSyncUnchanged == disk

DiskAfterSync == Image(directory)

\* sync_directory.  The parent of a bare name is the empty path, which opens
\* nothing.
SyncDirectory(p) ==
    /\ pc[p] = "directory"
    /\ \E fault \in Faults :
         LET fails == fault \/ path[p] = "bare"
         IN  /\ disk' = IF fails THEN disk ELSE DiskAfterSync
             /\ failed' = [failed EXCEPT ![p] = fails]
             /\ confirmed' = IF fails THEN confirmed ELSE directory[Target].version
    /\ Goto(p, "finish")
    /\ UNCHANGED <<directory, writes, abandoned, path, sequence, attempts, temporary>>

\* Mutant: the error return leaves the temporary.
RemoveTemporaryForgotten(p) == directory

RemoveTemporary(p) == [directory EXCEPT ![temporary[p]] = None]

\* The return: an error removes the temporary and ignores a failure of that.
Finish(p) ==
    /\ pc[p] = "finish"
    /\ \/ ~failed[p] /\ UNCHANGED <<directory, abandoned>>
       \/ failed[p] /\ directory' = RemoveTemporary(p) /\ UNCHANGED abandoned
       \/ /\ failed[p] /\ IoFaults
          /\ directory' = [directory EXCEPT ![temporary[p]] = Image(directory)[temporary[p]]]
          /\ abandoned' = abandoned \cup {temporary[p]}
    /\ Goto(p, "idle")
    /\ LocalsGone({p})
    /\ UNCHANGED <<disk, writes, confirmed, path, sequence>>

\* What a process forgets when it dies.
Restarted(dead) ==
    /\ pc' = [p \in Processes |-> IF p \in dead THEN "idle" ELSE pc[p]]
    /\ sequence' = [p \in Processes |-> IF p \in dead THEN 0 ELSE sequence[p]]
    /\ abandoned' = abandoned \cup
           {e \in Temporaries : e[1] \in dead /\ (directory[e].present \/ disk[e].present)}
    /\ LocalsGone(dead)
    /\ UNCHANGED <<path, writes, confirmed>>

\* A process is killed; the file system is not.
Kill(p) ==
    /\ pc[p] # "idle"
    /\ Restarted({p})
    /\ directory' = [e \in Entries |->
           IF e # Target /\ e = temporary[p] THEN Image(directory)[e] ELSE directory[e]]
    /\ UNCHANGED disk

\* After a power loss an entry is what the last directory sync saw or what it
\* was since, and a file that was not synced has lost contents.
Recovered(file) == IF file.present /\ ~file.synced THEN [file EXCEPT !.complete = FALSE] ELSE file

PowerLoss ==
    /\ Restarted(Processes)
    /\ \E kept \in SUBSET {e \in Entries : disk[e] # Image(directory)[e]} :
          directory' = [e \in Entries |->
              Recovered(IF e \in kept THEN Image(directory)[e] ELSE disk[e])]
    /\ disk' = directory'

Next ==
    \/ \E p \in Processes :
          \/ Begin(p) \/ CreateTemporary(p) \/ Write(p) \/ Sync(p) \/ Rename(p)
          \/ SyncDirectory(p) \/ Finish(p) \/ Kill(p)
    \/ PowerLoss

Spec == Init /\ [][Next]_vars

-----------------------------------------------------------------------------
(***************************************************************************)
(* Properties.                                                             *)
(***************************************************************************)

\* The target is at all times, and after any crash, one complete version:
\* never absent, never a partial file or one that also holds what a call of a
\* former life of the process wrote, whoever else is writing.
TargetIntact ==
    directory[Target].present /\ directory[Target].complete /\ ~directory[Target].earlier

\* A call that reported success is durable: no power loss takes the target
\* back to a version older than the one it confirmed.
ConfirmedDurable == directory[Target].version >= confirmed

\* A call that returns leaves no temporary behind, unless its process died or
\* the file system refused the removal.
NothingLeftBehind ==
    \A e \in Temporaries :
        directory[e].present => e \in abandoned \/ pc[e[1]] \notin {"idle", "create"}

\* "Atomically export": a call that reports an error has not replaced the
\* target.
ErrorMeansUntouched ==
    \A p \in Processes :
        (pc[p] = "finish" /\ failed[p]) => directory[temporary[p]].present

=============================================================================
