-------------------------- MODULE AtomicFileProofs --------------------------
(***************************************************************************)
(* Machine-checked proofs about AtomicFile, for any set of processes, any  *)
(* number of writes and attempts, both kinds of path, with and without I/O *)
(* faults, and any interleaving of calls, kills and power losses.          *)
(***************************************************************************)
EXTENDS AtomicFile, TLAPS

File == [present : {TRUE}, complete : BOOLEAN, synced : BOOLEAN, earlier : BOOLEAN, version : Nat]
Labels == {"idle", "create", "write", "sync", "rename", "directory", "finish"}

\* The labels at which a call has a temporary of its own.
Owning == {"write", "sync", "rename", "directory", "finish"}

TypeOK ==
    /\ directory \in [Entries -> {None} \cup File]
    /\ disk \in [Entries -> {None} \cup File]
    /\ pc \in [Processes -> Labels]
    /\ path \in [Processes -> PathKinds]
    /\ sequence \in [Processes -> Nat]
    /\ attempts \in [Processes -> Nat]
    /\ temporary \in [Processes -> Entries]
    /\ failed \in [Processes -> BOOLEAN]
    /\ writes \in Nat /\ confirmed \in Nat
    /\ abandoned \in SUBSET Temporaries

\* A temporary belongs to the process its name carries, and is as far as the
\* label of the call says.
TemporaryOf(p) ==
    /\ temporary[p] # Target => temporary[p][1] = p
    /\ pc[p] \in Owning =>
        /\ temporary[p] \in Temporaries
        /\ temporary[p][1] = p
        /\ pc[p] \in {"write", "sync", "rename"} =>
               directory[temporary[p]].present /\ ~directory[temporary[p]].earlier
        /\ pc[p] \in {"sync", "rename"} => directory[temporary[p]].complete
        /\ pc[p] = "rename" => directory[temporary[p]].synced
        /\ (pc[p] = "directory" \/ (pc[p] = "finish" /\ ~failed[p])) =>
               ~directory[temporary[p]].present

TemporariesOwned == \A p \in Processes : TemporaryOf(p)

\* A file of one call that survives a power loss whole.
Whole(file) == file.present /\ file.complete /\ file.synced /\ ~file.earlier

\* Both the target the processes see and the one on the disk are whole, and
\* what was promised is no newer than what is on the disk.
TargetSafe ==
    /\ Whole(directory[Target]) /\ Whole(disk[Target])
    /\ confirmed <= disk[Target].version
    /\ disk[Target].version <= directory[Target].version
    /\ directory[Target].version <= writes

\* A temporary in the directory belongs to a running call or was abandoned.
LeftAccounted ==
    \A e \in Temporaries :
        directory[e].present =>
            e \in abandoned \/ (pc[e[1]] \in Owning /\ temporary[e[1]] = e)

IInv == TypeOK /\ TemporariesOwned /\ TargetSafe /\ LeftAccounted

-----------------------------------------------------------------------------
(***************************************************************************)
(* Facts about entries and files.                                          *)
(***************************************************************************)

\* The target is not a temporary, and a temporary is a process and a number.
LEMMA EntryFacts ==
  /\ Target \in Entries /\ Target \notin Temporaries /\ Temporaries \subseteq Entries
  /\ \A e \in Temporaries : e[1] \in Processes
  /\ \A p \in Processes, n \in 0..MaxSequence :
        <<p, n>> \in Temporaries /\ <<p, n>>[1] = p
<1>1. \A e \in Temporaries : e = <<e[1], e[2]>> /\ e[1] \in Processes
  BY DEF Temporaries
<1>2. Target \notin Temporaries
  BY <1>1 DEF Target
<1>. QED BY <1>1, <1>2 DEF Entries, Temporaries

\* What the constant files are.
LEMMA FileFacts ==
  /\ Leftover \in File /\ Old \in File /\ Whole(Old) /\ Old.version = 0
  /\ None.present = FALSE /\ None \notin File
  /\ Leftover.present = TRUE
  /\ Empty \in File /\ Empty.present = TRUE /\ Empty.earlier = FALSE
  /\ \A f \in File : f.present = TRUE
BY DEF Leftover, Old, Empty, None, File, Whole

\* Image keeps the target and the presence of every temporary.
LEMMA ImageFacts ==
  ASSUME NEW entries \in [Entries -> {None} \cup File]
  PROVE  /\ Image(entries) \in [Entries -> {None} \cup File]
         /\ Image(entries)[Target] = entries[Target]
         /\ \A e \in Entries : Image(entries)[e].present = entries[e].present
BY EntryFacts, FileFacts DEF Image

\* The invariant holds before the first call.
LEMMA InitIInv == Init => IInv
<1>. SUFFICES ASSUME Init PROVE IInv
  OBVIOUS
<1>1. /\ directory = [e \in Entries |-> IF e = Target THEN Old ELSE None] /\ disk = directory
      /\ directory \in [Entries -> {None} \cup File]
  BY FileFacts DEF Init
<1>2. TypeOK
  BY <1>1, EntryFacts DEF Init, TypeOK, Labels
<1>3. TemporariesOwned
  BY DEF Init, TemporariesOwned, TemporaryOf, Owning
<1>4. TargetSafe
  BY <1>1, EntryFacts, FileFacts DEF Init, TargetSafe
<1>5. LeftAccounted
  BY <1>1, EntryFacts, FileFacts DEF LeftAccounted
<1>. QED BY <1>2, <1>3, <1>4, <1>5 DEF IInv

-----------------------------------------------------------------------------
(***************************************************************************)
(* What a step of one process leaves alone.                                *)
(***************************************************************************)

\* The step touches no other call and no temporary of another process.
OnlyOf(p) ==
    /\ \A q \in Processes \ {p} :
          pc'[q] = pc[q] /\ temporary'[q] = temporary[q] /\ failed'[q] = failed[q]
    /\ \A e \in Temporaries : e[1] # p => directory'[e] = directory[e]
    /\ \A e \in abandoned : e[1] # p => e \in abandoned'

\* Such a step keeps what holds of every other call.
LEMMA OthersKept ==
  ASSUME IInv, NEW p \in Processes, OnlyOf(p), TemporaryOf(p)'
  PROVE  TemporariesOwned'
<1>. SUFFICES ASSUME NEW q \in Processes, q # p PROVE TemporaryOf(q)'
  BY DEF TemporariesOwned
<1>1. TemporaryOf(q) /\ pc'[q] = pc[q] /\ temporary'[q] = temporary[q] /\ failed'[q] = failed[q]
  BY DEF IInv, TemporariesOwned, OnlyOf
<1>2. pc[q] \in Owning => directory'[temporary[q]] = directory[temporary[q]]
  BY <1>1 DEF TemporaryOf, OnlyOf
<1>. QED BY <1>1, <1>2 DEF TemporaryOf

\* And every other temporary stays accounted for.
LEMMA OthersAccounted ==
  ASSUME IInv, NEW p \in Processes, OnlyOf(p),
         \A e \in Temporaries :
             (e[1] = p /\ directory'[e].present) =>
                 e \in abandoned' \/ (pc'[p] \in Owning /\ temporary'[p] = e)
  PROVE  LeftAccounted'
<1>. SUFFICES ASSUME NEW e \in Temporaries, directory'[e].present, e[1] # p
              PROVE  e \in abandoned' \/ (pc'[e[1]] \in Owning /\ temporary'[e[1]] = e)
  BY DEF LeftAccounted
<1>1. e[1] \in Processes \ {p} /\ directory'[e] = directory[e]
  BY EntryFacts DEF OnlyOf
<1>2. e \in abandoned \/ (pc[e[1]] \in Owning /\ temporary[e[1]] = e)
  BY <1>1 DEF IInv, LeftAccounted
<1>. QED BY <1>1, <1>2 DEF OnlyOf

\* A temporary of p that is not the one of its call was abandoned.
LEMMA OwnAccounted ==
  ASSUME IInv, NEW p \in Processes, NEW e \in Temporaries, e[1] = p, directory[e].present,
         pc[p] \notin Owning \/ temporary[p] # e
  PROVE  e \in abandoned
BY DEF IInv, LeftAccounted

-----------------------------------------------------------------------------
(***************************************************************************)
(* The steps.                                                              *)
(***************************************************************************)

\* A call that starts owns nothing yet.
LEMMA BeginStep == ASSUME IInv, NEW p \in Processes, Begin(p) PROVE IInv'
<1>. USE DEF IInv
<1>1. /\ pc[p] = "idle" /\ pc' = [pc EXCEPT ![p] = "create"]
      /\ UNCHANGED <<directory, disk, writes, confirmed, abandoned, path, sequence, attempts,
                     temporary, failed>>
  BY DEF Begin, Goto, storage, history
<1>2. TypeOK'
  BY <1>1 DEF TypeOK, Labels
<1>3. OnlyOf(p) /\ pc'[p] = "create"
  BY <1>1 DEF OnlyOf, TypeOK
<1>4. TemporariesOwned'
  <2>1. TemporaryOf(p)'
    BY <1>1, <1>3 DEF TemporariesOwned, TemporaryOf, Owning
  <2>. QED BY <1>3, <2>1, OthersKept
<1>5. TargetSafe'
  BY <1>1 DEF TargetSafe
<1>6. LeftAccounted'
  BY <1>1, <1>3, OwnAccounted, OthersAccounted DEF Owning
<1>. QED BY <1>2, <1>4, <1>5, <1>6

\* create_new makes a file that was not there, under a name of its own process.
LEMMA CreateStep == ASSUME IInv, NEW p \in Processes, CreateTemporary(p) PROVE IInv'
<1>. USE DEF IInv
<1>. DEFINE candidate == <<p, sequence[p]>>
<1>1. /\ pc[p] = "create" /\ UNCHANGED <<writes, confirmed, path, disk>>
      /\ pc[p] \notin Owning
  BY DEF CreateTemporary, Owning
<1>2. \/ /\ Goto(p, "idle") /\ LocalsGone({p}) /\ UNCHANGED <<directory, abandoned>>
         /\ sequence' \in {sequence, [sequence EXCEPT ![p] = @ + 1]}
      \/ /\ sequence[p] \in 0..MaxSequence
         /\ sequence' = [sequence EXCEPT ![p] = @ + 1]
         /\ attempts' = [attempts EXCEPT ![p] = @ + 1]
         /\ UNCHANGED failed
         /\ \/ UNCHANGED <<directory, pc, temporary, abandoned>>
            \/ /\ directory' = [directory EXCEPT ![candidate] = Empty]
               /\ temporary' = [temporary EXCEPT ![p] = candidate]
               /\ abandoned' = abandoned \ {candidate}
               /\ Goto(p, "write")
  <2>1. CASE attempts[p] = MaxAttempts /\ Goto(p, "idle") /\ LocalsGone({p})
             /\ UNCHANGED <<directory, sequence, abandoned>>
    BY <2>1
  <2>2. CASE /\ sequence[p] <= MaxSequence /\ sequence' = [sequence EXCEPT ![p] = @ + 1]
             /\ TryCandidate(p)
    <3>1. sequence[p] \in 0..MaxSequence
      BY <2>2, WritesAssumption DEF TypeOK
    <3>2. CASE Goto(p, "idle") /\ LocalsGone({p}) /\ UNCHANGED <<directory, abandoned>>
      BY <2>2, <3>2
    <3>3. CASE /\ attempts' = [attempts EXCEPT ![p] = @ + 1]
               /\ UNCHANGED <<directory, pc, temporary, failed, abandoned>>
      BY <2>2, <3>1, <3>3
    <3>4. CASE /\ ~Exists(candidate)
               /\ directory' = [directory EXCEPT ![candidate] = Opened(@)]
               /\ attempts' = [attempts EXCEPT ![p] = @ + 1]
               /\ temporary' = [temporary EXCEPT ![p] = candidate]
               /\ abandoned' = abandoned \ {candidate}
               /\ Goto(p, "write") /\ UNCHANGED failed
      <4>1. Opened(directory[candidate]) = Empty
        BY <3>4 DEF Exists, Opened
      <4>. QED BY <2>2, <3>1, <3>4, <4>1
    <3>. QED BY <2>2, <3>2, <3>3, <3>4 DEF TryCandidate, Candidate
  <2>. QED BY <2>1, <2>2 DEF CreateTemporary
<1>3. CASE /\ Goto(p, "idle") /\ LocalsGone({p}) /\ UNCHANGED <<directory, abandoned>>
           /\ sequence' \in {sequence, [sequence EXCEPT ![p] = @ + 1]}
  <2>1. TypeOK'
    <3>1. sequence' \in [Processes -> Nat]
      BY <1>3 DEF TypeOK
    <3>. QED BY <1>1, <1>3, <3>1, EntryFacts DEF TypeOK, LocalsGone, Goto, Labels
  <2>2. OnlyOf(p) /\ pc'[p] = "idle" /\ temporary'[p] = Target
    BY <1>3 DEF OnlyOf, LocalsGone, Goto, TypeOK
  <2>3. TemporariesOwned'
    <3>1. TemporaryOf(p)'
      BY <2>2 DEF TemporaryOf, Owning
    <3>. QED BY <2>2, <3>1, OthersKept
  <2>4. TargetSafe'
    BY <1>1, <1>3 DEF TargetSafe
  <2>5. LeftAccounted'
    BY <1>1, <1>3, <2>2, OwnAccounted, OthersAccounted
  <2>. QED BY <2>1, <2>3, <2>4, <2>5
<1>4. CASE /\ sequence' = [sequence EXCEPT ![p] = @ + 1]
           /\ attempts' = [attempts EXCEPT ![p] = @ + 1]
           /\ UNCHANGED <<failed, directory, pc, temporary, abandoned>>
  BY <1>1, <1>4 DEF TypeOK, TemporariesOwned, TemporaryOf, TargetSafe, LeftAccounted
<1>5. CASE /\ sequence[p] \in 0..MaxSequence
           /\ sequence' = [sequence EXCEPT ![p] = @ + 1]
           /\ attempts' = [attempts EXCEPT ![p] = @ + 1]
           /\ UNCHANGED failed
           /\ directory' = [directory EXCEPT ![candidate] = Empty]
           /\ temporary' = [temporary EXCEPT ![p] = candidate]
           /\ abandoned' = abandoned \ {candidate}
           /\ Goto(p, "write")
  <2>1. candidate \in Temporaries /\ candidate[1] = p /\ candidate \in Entries /\ candidate # Target
    BY <1>5, EntryFacts
  <2>. HIDE DEF candidate
  <2>2. TypeOK'
    BY <1>1, <1>5, <2>1, FileFacts DEF TypeOK, Goto, Labels
  <2>3. /\ OnlyOf(p) /\ pc'[p] = "write" /\ temporary'[p] = candidate
        /\ directory'[candidate] = Empty /\ directory'[Target] = directory[Target]
        /\ \A e \in Temporaries : e # candidate => directory'[e] = directory[e]
    BY <1>5, <2>1, EntryFacts DEF OnlyOf, Goto, TypeOK
  <2>4. TemporariesOwned'
    <3>1. TemporaryOf(p)'
      BY <2>1, <2>3, FileFacts DEF TemporaryOf
    <3>. QED BY <2>3, <3>1, OthersKept
  <2>5. TargetSafe'
    BY <1>1, <2>3 DEF TargetSafe
  <2>6. LeftAccounted'
    <3>1. ASSUME NEW e \in Temporaries, e[1] = p, directory'[e].present
          PROVE  e \in abandoned' \/ (pc'[p] \in Owning /\ temporary'[p] = e)
      <4>1. CASE e = candidate
        BY <2>3, <4>1 DEF Owning
      <4>2. CASE e # candidate
        BY <1>1, <1>5, <2>3, <3>1, <4>2, OwnAccounted
      <4>. QED BY <4>1, <4>2
    <3>. QED BY <2>3, <3>1, OthersAccounted
  <2>. QED BY <2>2, <2>4, <2>5, <2>6
<1>. QED BY <1>2, <1>3, <1>4, <1>5

\* A call changes the contents of its own temporary and moves on.
LEMMA OwnFileStep ==
  ASSUME IInv, NEW p \in Processes, pc[p] \in {"write", "sync", "rename"},
         NEW file \in File, ~file.earlier, NEW fails \in BOOLEAN, NEW label \in Labels,
         directory' = [directory EXCEPT ![temporary[p]] = file],
         failed' = [failed EXCEPT ![p] = fails],
         pc' = [pc EXCEPT ![p] = label],
         UNCHANGED <<disk, writes, confirmed, abandoned, path, sequence, attempts, temporary>>,
         \/ label = "finish" /\ fails
         \/ label = "sync" /\ file.complete
         \/ label = "rename" /\ file.complete /\ file.synced
  PROVE  IInv'
<1>. USE DEF IInv
<1>1. /\ temporary[p] \in Temporaries /\ temporary[p][1] = p /\ temporary[p] # Target
      /\ temporary[p] \in Entries
  BY EntryFacts DEF TemporariesOwned, TemporaryOf, Owning
<1>2. TypeOK'
  BY <1>1 DEF TypeOK
<1>3. /\ OnlyOf(p) /\ pc'[p] = label /\ temporary'[p] = temporary[p] /\ failed'[p] = fails
      /\ directory'[temporary[p]] = file /\ file.present /\ directory'[Target] = directory[Target]
      /\ \A e \in Temporaries : e # temporary[p] => directory'[e] = directory[e]
  BY <1>1, EntryFacts, FileFacts DEF OnlyOf, TypeOK
<1>4. TemporariesOwned'
  <2>1. TemporaryOf(p)'
    BY <1>1, <1>3 DEF TemporaryOf
  <2>. QED BY <1>3, <2>1, OthersKept
<1>5. TargetSafe'
  BY <1>3 DEF TargetSafe
<1>6. LeftAccounted'
  <2>1. ASSUME NEW e \in Temporaries, e[1] = p, directory'[e].present, e # temporary[p]
        PROVE  e \in abandoned'
    BY <1>3, <2>1, OwnAccounted
  <2>. QED BY <1>3, <2>1, OthersAccounted DEF Owning
<1>. QED BY <1>2, <1>4, <1>5, <1>6

\* The writer callback fills the call's own temporary.
LEMMA WriteStep == ASSUME IInv, NEW p \in Processes, Write(p) PROVE IInv'
<1>1. /\ pc[p] = "write"
      /\ UNCHANGED <<disk, writes, confirmed, abandoned, path, sequence, attempts, temporary>>
  BY DEF Write, history
<1>2. PICK fault \in BOOLEAN :
         /\ directory' = [directory EXCEPT ![temporary[p]].complete = ~fault]
         /\ failed' = [failed EXCEPT ![p] = fault]
         /\ pc' = [pc EXCEPT ![p] = IF fault THEN "finish" ELSE "sync"]
  BY DEF Write, Faults, Goto
<1>3. directory[temporary[p]] \in File /\ ~directory[temporary[p]].earlier
  BY <1>1, EntryFacts, FileFacts DEF IInv, TypeOK, TemporariesOwned, TemporaryOf, Owning
<1>. DEFINE file == [directory[temporary[p]] EXCEPT !.complete = ~fault]
<1>4. file \in File /\ file.complete = ~fault /\ ~file.earlier
  BY <1>3 DEF File
<1>5. directory' = [directory EXCEPT ![temporary[p]] = file]
  BY <1>2
<1>. HIDE DEF file
<1>6. CASE fault
  BY <1>1, <1>2, <1>4, <1>5, <1>6, OwnFileStep DEF Labels
<1>7. CASE ~fault
  BY <1>1, <1>2, <1>4, <1>5, <1>7, OwnFileStep DEF Labels
<1>. QED BY <1>6, <1>7

\* sync_all makes the call's own temporary durable.
LEMMA SyncStep == ASSUME IInv, NEW p \in Processes, Sync(p) PROVE IInv'
<1>1. /\ pc[p] = "sync"
      /\ UNCHANGED <<disk, writes, confirmed, abandoned, path, sequence, attempts, temporary>>
  BY DEF Sync, history
<1>2. PICK fault \in BOOLEAN :
         /\ directory' = IF fault THEN directory
                         ELSE [directory EXCEPT ![temporary[p]] = Synced(@)]
         /\ failed' = [failed EXCEPT ![p] = fault]
         /\ pc' = [pc EXCEPT ![p] = IF fault THEN "finish" ELSE "rename"]
  BY DEF Sync, Faults, Goto
<1>3. /\ directory[temporary[p]] \in File /\ directory[temporary[p]].complete
      /\ ~directory[temporary[p]].earlier
  BY <1>1, EntryFacts, FileFacts DEF IInv, TypeOK, TemporariesOwned, TemporaryOf, Owning
<1>4. CASE fault
  <2>1. directory' = [directory EXCEPT ![temporary[p]] = directory[temporary[p]]]
    BY <1>2, <1>4 DEF IInv, TypeOK
  <2>. QED BY <1>1, <1>2, <1>3, <1>4, <2>1, OwnFileStep DEF Labels
<1>5. CASE ~fault
  <2>. DEFINE file == Synced(directory[temporary[p]])
  <2>1. file \in File /\ file.complete /\ file.synced /\ ~file.earlier
    BY <1>3 DEF File, Synced
  <2>2. directory' = [directory EXCEPT ![temporary[p]] = file]
    BY <1>2, <1>5
  <2>. HIDE DEF file
  <2>. QED BY <1>1, <1>2, <1>5, <2>1, <2>2, OwnFileStep DEF Labels
<1>. QED BY <1>4, <1>5

\* The rename makes a whole file the target and leaves no temporary.
LEMMA RenameStep == ASSUME IInv, NEW p \in Processes, Rename(p) PROVE IInv'
<1>1. /\ pc[p] = "rename"
      /\ UNCHANGED <<disk, confirmed, abandoned, path, sequence, attempts, temporary>>
  BY DEF Rename
<1>2. /\ temporary[p] \in Temporaries /\ temporary[p][1] = p /\ temporary[p] # Target
      /\ temporary[p] \in Entries
      /\ directory[temporary[p]] \in File /\ Whole(directory[temporary[p]])
  BY <1>1, EntryFacts, FileFacts DEF IInv, TypeOK, TemporariesOwned, TemporaryOf, Owning, Whole
<1>3. CASE /\ failed' = [failed EXCEPT ![p] = TRUE]
           /\ Goto(p, "finish") /\ UNCHANGED <<directory, writes>>
  <2>1. directory' = [directory EXCEPT ![temporary[p]] = directory[temporary[p]]]
    BY <1>3 DEF IInv, TypeOK
  <2>. QED BY <1>1, <1>2, <1>3, <2>1, OwnFileStep DEF Labels, Goto, Whole
<1>4. CASE /\ directory' = [directory EXCEPT
                 ![Target] = [directory[temporary[p]] EXCEPT !.version = writes + 1],
                 ![temporary[p]] = None]
           /\ writes' = writes + 1 /\ Goto(p, "directory") /\ UNCHANGED failed
  <2>. USE DEF IInv
  <2>. DEFINE file == [directory[temporary[p]] EXCEPT !.version = writes + 1]
  <2>1. file \in File /\ Whole(file) /\ file.version = writes + 1
    <3>1. writes + 1 \in Nat
      BY DEF TypeOK
    <3>. QED BY <1>2, <3>1 DEF File, Whole
  <2>2. /\ directory' = [directory EXCEPT ![Target] = file, ![temporary[p]] = None]
        /\ writes' = writes + 1 /\ pc' = [pc EXCEPT ![p] = "directory"] /\ failed' = failed
    BY <1>4 DEF Goto
  <2>. HIDE DEF file
  <2>3. /\ directory' \in [Entries -> {None} \cup File]
        /\ directory'[Target] = file /\ directory'[temporary[p]] = None
        /\ \A e \in Temporaries : e # temporary[p] => directory'[e] = directory[e]
    BY <1>2, <2>1, <2>2, EntryFacts DEF TypeOK
  <2>4. TypeOK'
    BY <1>1, <2>2, <2>3 DEF TypeOK, Labels
  <2>5. OnlyOf(p) /\ pc'[p] = "directory" /\ temporary'[p] = temporary[p]
    <3>1. \A e \in Temporaries : e[1] # p => directory'[e] = directory[e]
      BY <1>2, <2>3
    <3>. QED BY <1>1, <2>2, <3>1 DEF OnlyOf, TypeOK
  <2>6. TemporariesOwned'
    <3>1. TemporaryOf(p)'
      BY <1>2, <2>3, <2>5, FileFacts DEF TemporaryOf
    <3>. QED BY <2>5, <3>1, OthersKept
  <2>7. TargetSafe'
    <3>1. disk[Target].version \in Nat /\ writes \in Nat /\ directory[Target].version \in Nat
      BY EntryFacts, FileFacts DEF TypeOK, TargetSafe, Whole, File
    <3>. QED BY <1>1, <2>1, <2>2, <2>3, <3>1 DEF TargetSafe
  <2>8. LeftAccounted'
    <3>1. ASSUME NEW e \in Temporaries, e[1] = p, directory'[e].present
          PROVE  e \in abandoned'
      BY <1>1, <2>3, <3>1, FileFacts, OwnAccounted
    <3>. QED BY <2>5, <3>1, OthersAccounted
  <2>. QED BY <2>4, <2>6, <2>7, <2>8
<1>. QED BY <1>3, <1>4 DEF Rename

\* A synced directory is what a power loss brings back.
LEMMA SyncDirectoryStep == ASSUME IInv, NEW p \in Processes, SyncDirectory(p) PROVE IInv'
<1>. USE DEF IInv
<1>1. /\ pc[p] = "directory" /\ pc' = [pc EXCEPT ![p] = "finish"]
      /\ UNCHANGED <<directory, writes, abandoned, path, sequence, attempts, temporary>>
  BY DEF SyncDirectory, Goto
<1>2. PICK fails \in BOOLEAN :
         /\ disk' = IF fails THEN disk ELSE Image(directory)
         /\ failed' = [failed EXCEPT ![p] = fails]
         /\ confirmed' = IF fails THEN confirmed ELSE directory[Target].version
  BY DEF SyncDirectory, DiskAfterSync, Faults
<1>3. /\ temporary[p] \in Temporaries /\ temporary[p][1] = p /\ ~directory[temporary[p]].present
  BY <1>1 DEF TemporariesOwned, TemporaryOf, Owning
<1>4. /\ Image(directory) \in [Entries -> {None} \cup File]
      /\ Image(directory)[Target] = directory[Target]
  BY ImageFacts DEF TypeOK
<1>5. directory[Target].version \in Nat /\ writes \in Nat
  BY EntryFacts, FileFacts DEF TypeOK, TargetSafe, Whole, File
<1>6. TypeOK'
  BY <1>1, <1>2, <1>4, <1>5 DEF TypeOK, Labels
<1>7. OnlyOf(p) /\ pc'[p] = "finish" /\ temporary'[p] = temporary[p]
  BY <1>1, <1>2 DEF OnlyOf, TypeOK
<1>8. TemporariesOwned'
  <2>1. TemporaryOf(p)'
    BY <1>1, <1>3, <1>7 DEF TemporaryOf
  <2>. QED BY <1>7, <2>1, OthersKept
<1>9. TargetSafe'
  BY <1>1, <1>2, <1>4, <1>5 DEF TargetSafe
<1>10. LeftAccounted'
  <2>1. ASSUME NEW e \in Temporaries, e[1] = p, directory'[e].present
        PROVE  e \in abandoned'
    BY <1>1, <1>3, <2>1, OwnAccounted
  <2>. QED BY <1>7, <2>1, OthersAccounted
<1>. QED BY <1>6, <1>8, <1>9, <1>10

\* A return leaves the temporary removed, renamed away or abandoned.
LEMMA FinishStep == ASSUME IInv, NEW p \in Processes, Finish(p) PROVE IInv'
<1>. USE DEF IInv
<1>1. /\ pc[p] = "finish" /\ Goto(p, "idle") /\ LocalsGone({p})
      /\ UNCHANGED <<disk, writes, confirmed, path, sequence>>
  BY DEF Finish
<1>2. /\ temporary[p] \in Temporaries /\ temporary[p][1] = p /\ temporary[p] # Target
      /\ temporary[p] \in Entries
      /\ ~failed[p] => ~directory[temporary[p]].present
  BY <1>1, EntryFacts DEF TemporariesOwned, TemporaryOf, Owning
<1>3. PICK file \in {None} \cup File :
         /\ directory' = [directory EXCEPT ![temporary[p]] = file]
         /\ abandoned' \in {abandoned, abandoned \cup {temporary[p]}}
         /\ file.present => temporary[p] \in abandoned'
  <2>1. CASE ~failed[p] /\ UNCHANGED <<directory, abandoned>>
    <3>1. directory' = [directory EXCEPT ![temporary[p]] = directory[temporary[p]]]
      BY <1>2, <2>1 DEF TypeOK
    <3>2. directory[temporary[p]] \in {None} \cup File /\ ~directory[temporary[p]].present
      BY <1>2, <2>1 DEF TypeOK
    <3>. QED BY <2>1, <3>1, <3>2
  <2>2. CASE directory' = RemoveTemporary(p) /\ UNCHANGED abandoned
    BY <2>2, FileFacts DEF RemoveTemporary
  <2>3. CASE /\ directory' = [directory EXCEPT ![temporary[p]] = Image(directory)[temporary[p]]]
             /\ abandoned' = abandoned \cup {temporary[p]}
    <3>1. Image(directory)[temporary[p]] \in {None} \cup File
      BY <1>2, ImageFacts DEF TypeOK
    <3>. QED BY <2>3, <3>1
  <2>. QED BY <2>1, <2>2, <2>3 DEF Finish
<1>4. TypeOK'
  BY <1>1, <1>2, <1>3, EntryFacts DEF TypeOK, LocalsGone, Goto, Labels
<1>5. /\ OnlyOf(p) /\ pc'[p] = "idle" /\ temporary'[p] = Target
      /\ directory'[Target] = directory[Target]
      /\ directory'[temporary[p]] = file
      /\ \A e \in Temporaries : e # temporary[p] => directory'[e] = directory[e]
  BY <1>1, <1>2, <1>3, EntryFacts DEF OnlyOf, LocalsGone, Goto, TypeOK
<1>6. TemporariesOwned'
  <2>1. TemporaryOf(p)'
    BY <1>5 DEF TemporaryOf, Owning
  <2>. QED BY <1>5, <2>1, OthersKept
<1>7. TargetSafe'
  BY <1>1, <1>5 DEF TargetSafe
<1>8. LeftAccounted'
  <2>1. ASSUME NEW e \in Temporaries, e[1] = p, directory'[e].present
        PROVE  e \in abandoned'
    <3>1. CASE e = temporary[p]
      BY <1>3, <1>5, <2>1, <3>1
    <3>2. CASE e # temporary[p]
      BY <1>3, <1>5, <2>1, <3>2, OwnAccounted
    <3>. QED BY <3>1, <3>2
  <2>. QED BY <1>5, <2>1, OthersAccounted
<1>. QED BY <1>4, <1>6, <1>7, <1>8

\* A killed process leaves its temporary to nobody.
LEMMA KillStep == ASSUME IInv, NEW p \in Processes, Kill(p) PROVE IInv'
<1>. USE DEF IInv
<1>1. /\ Restarted({p}) /\ disk' = disk /\ UNCHANGED <<path, writes, confirmed>>
      /\ directory' = [e \in Entries |->
             IF e # Target /\ e = temporary[p] THEN Image(directory)[e] ELSE directory[e]]
  BY DEF Kill, Restarted
<1>2. /\ pc' = [q \in Processes |-> IF q \in {p} THEN "idle" ELSE pc[q]]
      /\ sequence' = [q \in Processes |-> IF q \in {p} THEN 0 ELSE sequence[q]]
      /\ LocalsGone({p})
      /\ abandoned' = abandoned \cup
             {e \in Temporaries : e[1] \in {p} /\ (directory[e].present \/ disk[e].present)}
  BY <1>1 DEF Restarted
<1>3. /\ directory' \in [Entries -> {None} \cup File]
      /\ directory'[Target] = directory[Target]
      /\ \A e \in Entries : directory'[e].present = directory[e].present
  BY <1>1, ImageFacts, EntryFacts DEF TypeOK
<1>4. TypeOK'
  BY <1>1, <1>2, <1>3, EntryFacts DEF TypeOK, LocalsGone, Labels
<1>5. \A e \in Temporaries : e[1] # p => directory'[e] = directory[e]
  <2>1. temporary[p] # Target => temporary[p][1] = p
    BY DEF TemporariesOwned, TemporaryOf
  <2>. QED BY <1>1, <2>1, EntryFacts DEF TypeOK
<1>6. OnlyOf(p) /\ pc'[p] = "idle" /\ temporary'[p] = Target
  BY <1>2, <1>5 DEF OnlyOf, LocalsGone, TypeOK
<1>7. TemporariesOwned'
  <2>1. TemporaryOf(p)'
    BY <1>6 DEF TemporaryOf, Owning
  <2>. QED BY <1>6, <2>1, OthersKept
<1>8. TargetSafe'
  BY <1>1, <1>3 DEF TargetSafe
<1>9. LeftAccounted'
  <2>1. ASSUME NEW e \in Temporaries, e[1] = p, directory'[e].present
        PROVE  e \in abandoned'
    BY <1>2, <1>3, <2>1, EntryFacts
  <2>. QED BY <1>6, <2>1, OthersAccounted
<1>. QED BY <1>4, <1>7, <1>8, <1>9

\* After a power loss the target is one of two whole files, and neither is
\* older than what was promised.
LEMMA PowerLossStep == ASSUME IInv, PowerLoss PROVE IInv'
<1>. USE DEF IInv
<1>1. /\ Restarted(Processes) /\ disk' = directory' /\ UNCHANGED <<path, writes, confirmed>>
  BY DEF PowerLoss, Restarted
<1>2. PICK kept : directory' = [e \in Entries |->
                      Recovered(IF e \in kept THEN Image(directory)[e] ELSE disk[e])]
  BY DEF PowerLoss
<1>3. \A file \in {None} \cup File :
         /\ Recovered(file) \in {None} \cup File
         /\ Recovered(file).present = file.present
         /\ Whole(file) => Recovered(file) = file
  <2>. SUFFICES ASSUME NEW file \in {None} \cup File
                PROVE  /\ Recovered(file) \in {None} \cup File
                       /\ Recovered(file).present = file.present
                       /\ Whole(file) => Recovered(file) = file
    OBVIOUS
  <2>1. CASE file = None
    BY <2>1, FileFacts DEF Recovered, Whole
  <2>2. CASE file \in File
    BY <2>2 DEF Recovered, Whole, File
  <2>. QED BY <2>1, <2>2
<1>4. \A e \in Entries :
         /\ Image(directory)[e] \in {None} \cup File /\ disk[e] \in {None} \cup File
         /\ Image(directory)[e].present = directory[e].present
  BY ImageFacts DEF TypeOK
<1>5. /\ directory' \in [Entries -> {None} \cup File]
      /\ \A e \in Entries : directory'[e].present => directory[e].present \/ disk[e].present
  BY <1>2, <1>3, <1>4
<1>6. /\ pc' = [q \in Processes |-> "idle"]
      /\ sequence' = [q \in Processes |-> 0]
      /\ LocalsGone(Processes)
      /\ abandoned' = abandoned \cup
             {e \in Temporaries : directory[e].present \/ disk[e].present}
  BY <1>1, EntryFacts DEF Restarted
<1>7. TypeOK'
  BY <1>1, <1>5, <1>6, EntryFacts DEF TypeOK, LocalsGone, Labels
<1>8. TemporariesOwned'
  BY <1>6 DEF TemporariesOwned, TemporaryOf, Owning, LocalsGone
<1>9. TargetSafe'
  <2>1. directory'[Target] \in {directory[Target], disk[Target]}
    <3>1. Image(directory)[Target] = directory[Target]
      BY ImageFacts DEF TypeOK
    <3>2. /\ Recovered(directory[Target]) = directory[Target]
          /\ Recovered(disk[Target]) = disk[Target]
      BY <1>3, EntryFacts DEF TypeOK, TargetSafe
    <3>. QED BY <1>2, <3>1, <3>2, EntryFacts
  <2>2. /\ directory[Target].version \in Nat /\ disk[Target].version \in Nat
        /\ writes \in Nat /\ confirmed \in Nat
    BY EntryFacts, FileFacts DEF TypeOK, TargetSafe, Whole, File
  <2>. QED BY <1>1, <2>1, <2>2 DEF TargetSafe
<1>10. LeftAccounted'
  BY <1>5, <1>6, EntryFacts DEF LeftAccounted
<1>. QED BY <1>7, <1>8, <1>9, <1>10

\* Every step keeps the inductive invariant.
LEMMA NextIInv == IInv /\ [Next]_vars => IInv'
<1>. SUFFICES ASSUME IInv, [Next]_vars PROVE IInv'
  OBVIOUS
<1>1. CASE UNCHANGED vars
  BY <1>1 DEF vars, IInv, TypeOK, TemporariesOwned, TemporaryOf, TargetSafe, LeftAccounted
<1>2. ASSUME NEW p \in Processes,
             \/ Begin(p) \/ CreateTemporary(p) \/ Write(p) \/ Sync(p) \/ Rename(p)
             \/ SyncDirectory(p) \/ Finish(p) \/ Kill(p)
      PROVE  IInv'
  BY <1>2, BeginStep, CreateStep, WriteStep, SyncStep, RenameStep, SyncDirectoryStep,
     FinishStep, KillStep
<1>. QED BY <1>1, <1>2, PowerLossStep DEF Next

\* So it holds in every reachable state.
LEMMA Invariance == Spec => []IInv
BY InitIInv, NextIInv, PTL DEF Spec

-----------------------------------------------------------------------------
(***************************************************************************)
(* What follows from it.                                                   *)
(***************************************************************************)

\* write_atomically never exposes a missing or a partial target, to any other
\* process at any moment or to anyone after a kill or a power loss.
THEOREM FileTargetIntact == Spec => []TargetIntact
<1>1. IInv => TargetIntact
  BY DEF IInv, TargetSafe, Whole, TargetIntact
<1>. QED BY <1>1, Invariance, PTL

\* A version that a successful write_atomically reported is never lost to an
\* older one.
THEOREM FileConfirmedDurable == Spec => []ConfirmedDurable
<1>1. IInv => ConfirmedDurable
  <2>1. IInv => /\ directory[Target].version \in Nat /\ disk[Target].version \in Nat
                /\ confirmed \in Nat
    BY EntryFacts, FileFacts DEF IInv, TypeOK, TargetSafe, Whole, File
  <2>. QED BY <2>1 DEF IInv, TargetSafe, ConfirmedDurable
<1>. QED BY <1>1, Invariance, PTL

\* Every temporary file belongs to a running call unless its process died or
\* the file system refused to remove it.
THEOREM FileNothingLeftBehind == Spec => []NothingLeftBehind
<1>1. IInv => NothingLeftBehind
  BY DEF IInv, LeftAccounted, NothingLeftBehind, Owning
<1>. QED BY <1>1, Invariance, PTL
=============================================================================
