---------------------------- MODULE StoreProofs -----------------------------
(***************************************************************************)
(* What Delivery promises when no two runs with one file name overlap and  *)
(* Path::exists does not fail: the archive stays, the report is true, and  *)
(* the directories behave as ArchiveStore says.  And what is left of it    *)
(* when such runs do overlap.                                              *)
(***************************************************************************)
EXTENDS DeliveryProofs

\* The conditions of the code's promises: one run at a time for a file name,
\* and checks that see the file that is there.
Serial == NoRivals /\ "stat" \notin Faults

-----------------------------------------------------------------------------
(* What a step may do to the final names: nothing, a rename, a power loss. *)

FinalsSame ==
    \A d \in Dirs, n \in Names :
        /\ dir'[d][<<n, None>>] = dir[d][<<n, None>>]
        /\ dir[d][<<n, None>>] # None =>
              data'[dir[d][<<n, None>>]] = data[dir[d][<<n, None>>]]

\* A part that is opened or written is nobody's final file.
LEMMA CopyFinalsSame ==
  ASSUME IInv, NEW r \in Runs, OpenPart(r) \/ WriteChunk(r)
  PROVE  FinalsSame
  <1>1. target[r] \in Dirs /\ Part(r) \in Entry
    BY Names2 DEF IInv, TargetTaken, Copying, OpenPart, WriteChunk
  <1>2. CASE OpenPart(r)
    <2> DEFINE d0 == target[r]
               i == IF dir[d0][Part(r)] = None THEN <<r, d0>> ELSE dir[d0][Part(r)]
    <2>1. /\ pc[r] = "copy" /\ pc[r] \in Copying
          /\ dir' = [dir EXCEPT ![d0][Part(r)] = i] /\ data' = [data EXCEPT ![i] = Empty]
      BY <1>2 DEF OpenPart, Copying
    <2>2. Exclusive(i, r)
      BY <2>1, PartExclusive, NewExclusive
    <2> HIDE DEF i
    <2>3. ASSUME NEW d \in Dirs, NEW n \in Names
          PROVE  /\ dir'[d][<<n, None>>] = dir[d][<<n, None>>]
                 /\ dir[d][<<n, None>>] # i
      <3>1. <<n, None>> \in Entry /\ <<n, None>> # Part(r)
        BY Names2
      <3> QED
        BY <1>1, <2>1, <2>2, <3>1 DEF IInv, TypeOK, Exclusive
    <2>4. \A j \in Inodes : j # i => data'[j] = data[j]
      BY <2>1, <2>2 DEF IInv, TypeOK, Exclusive
    <2>5. \A d \in Dirs, n \in Names : dir[d][<<n, None>>] \in Inodes \cup {None}
      BY Names2 DEF IInv, TypeOK
    <2> QED
      BY <2>3, <2>4, <2>5 DEF FinalsSame
  <1>3. CASE WriteChunk(r)
    <2>1. /\ pc[r] = "write" /\ dir' = dir
          /\ data' = [data EXCEPT ![fd[r]][written[r] + 1] = r]
          /\ fd[r] = dir[target[r]][Part(r)] /\ dir[target[r]][Part(r)] # None
      BY <1>3 DEF WriteChunk, IInv, CopyProgress, CopyState
    <2>2. Exclusive(fd[r], r)
      BY <2>1, PartExclusive DEF Copying
    <2>3. \A d \in Dirs, n \in Names :
             /\ dir[d][<<n, None>>] \in Inodes \cup {None}
             /\ dir[d][<<n, None>>] # fd[r]
      BY <2>2, Names2 DEF IInv, TypeOK, Exclusive
    <2>4. \A j \in Inodes : j # fd[r] => data'[j] = data[j]
      BY <2>1, <2>2 DEF IInv, TypeOK, Exclusive
    <2> QED
      BY <2>1, <2>3, <2>4 DEF FinalsSame
  <1> QED
    BY <1>2, <1>3

LEMMA UnlinkFinalsSame ==
  ASSUME IInv, NEW r \in Runs, UnlinkPart(r)
  PROVE  FinalsSame
  <1>1. target[r] \in Dirs /\ Part(r) \in Entry /\ data' = data
    BY Names2 DEF IInv, TargetTaken, Copying, UnlinkPart
  <1>2. dir' = dir \/ dir' = [dir EXCEPT ![target[r]][Part(r)] = None]
    BY DEF UnlinkPart, RemovePart
  <1>3. \A n \in Names : <<n, None>> \in Entry /\ <<n, None>> # Part(r)
    BY Names2
  <1> QED
    BY <1>1, <1>2, <1>3 DEF FinalsSame, IInv, TypeOK

\* The renamed file is the whole artifact of r.
Renamed(r) ==
    /\ pc[r] = "rename" /\ pc'[r] = "syncdir" /\ target[r] \in Dirs
    /\ data[dir[target[r]][Part(r)]] = Artifact(r)
    /\ dir[target[r]][Part(r)] # None
    /\ \A d \in Dirs, n \in Names :
          dir'[d][<<n, None>>] =
             IF d = target[r] /\ n = FinalName[r] THEN dir[d][Part(r)]
                                                  ELSE dir[d][<<n, None>>]
    /\ UNCHANGED <<todo, target, delivered, failures, warned, data, diskVars>>
    /\ \A q \in Runs \ {r} : pc'[q] = pc[q]

LEMMA RenameRenames ==
  ASSUME IInv, NEW r \in Runs, Rename(r)
  PROVE  Renamed(r)
  <1>1. /\ pc[r] = "rename" /\ pc' = [pc EXCEPT ![r] = "syncdir"]
        /\ dir[target[r]][Part(r)] # None
        /\ dir' = [dir EXCEPT ![target[r]][Dest(r)] = dir[target[r]][Part(r)],
                              ![target[r]][Part(r)] = None]
        /\ UNCHANGED <<todo, target, delivered, failures, warned, data, diskVars>>
    BY DEF Rename, Goto
  <1>2. target[r] \in Dirs /\ Part(r) \in Entry /\ Dest(r) \in Entry /\ Part(r) # Dest(r)
    BY <1>1, Names2 DEF IInv, TargetTaken, Copying
  <1>3. data[dir[target[r]][Part(r)]] = Artifact(r)
    BY <1>1 DEF IInv, CopyProgress, CopyState
  <1>4. \A n \in Names : /\ <<n, None>> \in Entry /\ <<n, None>> # Part(r)
                         /\ <<n, None>> = Dest(r) <=> n = FinalName[r]
    BY Names2 DEF Dest
  <1>5. \A d \in Dirs, n \in Names :
          dir'[d][<<n, None>>] =
             IF d = target[r] /\ n = FinalName[r] THEN dir[d][Part(r)]
                                                  ELSE dir[d][<<n, None>>]
    BY <1>1, <1>2, <1>4 DEF IInv, TypeOK
  <1>6. pc'[r] = "syncdir" /\ \A q \in Runs \ {r} : pc'[q] = pc[q]
    BY <1>1 DEF IInv, TypeOK
  <1> QED
    BY <1>1, <1>2, <1>3, <1>5, <1>6 DEF Renamed

LEMMA FinalsStep ==
  ASSUME IInv, [Next]_vars
  PROVE  \/ FinalsSame
         \/ \E r \in Runs : Rename(r) /\ Renamed(r)
         \/ PowerLoss
  <1>1. ASSUME UNCHANGED <<dir, data>> PROVE FinalsSame
    BY <1>1 DEF FinalsSame
  <1>2. ASSUME NEW r \in Runs, QuietStep(r) \/ CloseCopy(r) \/ Fsync(r) \/ SyncDir(r)
        PROVE  FinalsSame
    BY <1>1, <1>2, QuietOwn DEF fsVars, CloseCopy, Fsync, SyncDir
  <1>3. ASSUME NEW r \in Runs, OpenPart(r) \/ WriteChunk(r) \/ UnlinkPart(r)
        PROVE  FinalsSame
    BY <1>3, CopyFinalsSame, UnlinkFinalsSame
  <1>4. ASSUME NEW d \in Dirs, WritebackDir(d) PROVE FinalsSame
    BY <1>1, <1>4 DEF WritebackDir
  <1>5. ASSUME NEW i \in Inodes, NEW c \in Chunk, WritebackChunk(i, c) PROVE FinalsSame
    BY <1>1, <1>5 DEF WritebackChunk
  <1>6. CASE UNCHANGED vars
    BY <1>1, <1>6 DEF vars, fsVars
  <1> QED
    BY <1>2, <1>3, <1>4, <1>5, <1>6, RenameRenames DEF Next, RunStep, Done, QuietStep

\* A directory on disk lags behind, or is brought up to date with memory.
LEMMA DiskStep ==
  ASSUME [Next]_vars, TypeOK, TargetTaken
  PROVE  \/ dirDisk' = dirDisk
         \/ \E d \in Dirs : /\ dirDisk' = [dirDisk EXCEPT ![d] = dir[d]]
                            /\ dir' = dir /\ data' = data
  <1>1. ASSUME NEW r \in Runs, SyncDir(r)
        PROVE  /\ target[r] \in Dirs /\ dirDisk' = [dirDisk EXCEPT ![target[r]] = dir[target[r]]]
               /\ dir' = dir /\ data' = data
    BY <1>1 DEF SyncDir, Deliver, FlushDir, TargetTaken, Copying
  <1>2. ASSUME NEW d \in Dirs, WritebackDir(d)
        PROVE  dirDisk' = [dirDisk EXCEPT ![d] = dir[d]] /\ dir' = dir /\ data' = data
    BY <1>2 DEF WritebackDir
  <1>3. ASSUME NEW r \in Runs, Begin(r) \/ Kill(r) \/ (RunStep(r) /\ ~SyncDir(r))
        PROVE  dirDisk' = dirDisk
    BY <1>3
    DEF RunStep, Begin, Kill, PreCheck, Work, WorkFails, Recheck, NextTarget, OpenPart,
        WriteChunk, CloseCopy, Fsync, Rename, SyncDirFails, IOError, PartVanished,
        UnlinkPart, Return, fsVars, diskVars
  <1>4. ASSUME PowerLoss \/ UNCHANGED vars \/ \E i \in Inodes, c \in Chunk : WritebackChunk(i, c)
        PROVE  dirDisk' = dirDisk
    BY <1>4 DEF PowerLoss, WritebackChunk, vars, fsVars, diskVars
  <1> QED
    BY <1>1, <1>2, <1>3, <1>4 DEF Next, Done

-----------------------------------------------------------------------------
(* Names: two live runs have different ones, and a name found free stays   *)
(* free until the rename.                                                  *)

LEMMA LiveNamesStep ==
  ASSUME IInv, LiveNames, NoRivals, [Next]_vars
  PROVE  LiveNames'
  <1>1. ASSUME NEW r \in Runs, Begin(r), LiveRuns' = LiveRuns \cup {r} PROVE LiveNames'
    BY <1>1, BeginsAlone DEF IInv, LiveNames
  <1>2. CASE LiveRuns' \subseteq LiveRuns
    BY <1>2 DEF LiveNames
  <1> QED
    BY <1>1, <1>2, LiveStep DEF IInv

\* Before the rename a run has just found the name free, or is already copying.
LEMMA CopyEntry ==
  ASSUME TypeOK, "stat" \notin Faults, [Next]_vars, NEW q \in Runs,
         pc'[q] \in {"copy", "write", "fsync", "rename"}
  PROVE  \/ pc[q] \in {"copy", "write", "fsync", "rename"} /\ target'[q] = target[q]
         \/ pc[q] = "loop" /\ ~Occupied(q, target'[q])
  <1> DEFINE Goal == \/ pc[q] \in {"copy", "write", "fsync", "rename"} /\ target'[q] = target[q]
                     \/ pc[q] = "loop" /\ ~Occupied(q, target'[q])
  <1> USE DEF TypeOK, Goto
  <1>1. ASSUME NEW r \in Runs, NextTarget(r) PROVE Goal
    BY <1>1 DEF NextTarget
  <1>2. ASSUME NEW r \in Runs, r # q, RunStep(r) \/ Kill(r) PROVE Goal
    BY <1>2, OwnStep
  <1>3. ASSUME OpenPart(q) \/ WriteChunk(q) \/ CloseCopy(q) \/ Fsync(q) PROVE Goal
    BY <1>3 DEF OpenPart, WriteChunk, CloseCopy, Fsync
  <1>4. ASSUME \/ PreCheck(q) \/ Work(q) \/ WorkFails(q) \/ Recheck(q) \/ Rename(q)
               \/ SyncDir(q) \/ SyncDirFails(q) \/ IOError(q) \/ PartVanished(q)
               \/ UnlinkPart(q) \/ Return(q) \/ Kill(q)
        PROVE  FALSE
    BY <1>4 DEF PreCheck, Work, WorkFails, Recheck, Rename, SyncDir, SyncDirFails,
                Deliver, IOError, PartVanished, UnlinkPart, Return, Kill
  <1>5. ASSUME NEW r \in Runs, Begin(r) PROVE Goal
    BY <1>5 DEF Begin
  <1>6. ASSUME PowerLoss PROVE Goal
    BY <1>6 DEF PowerLoss, Live, Copying, Deciding
  <1>7. ASSUME UNCHANGED <<pc, target>> PROVE Goal
    BY <1>7
  <1> QED
    BY <1>1, <1>2, <1>3, <1>4, <1>5, <1>6, <1>7
    DEF Next, RunStep, Done, WritebackDir, WritebackChunk, vars, runVars

LEMMA NamesFreeStep ==
  ASSUME IInv, TypeOK', TargetTaken', LiveNames, NameStillFree, Serial, [Next]_vars
  PROVE  NameStillFree'
  <1> SUFFICES ASSUME NEW q \in Runs, pc'[q] \in {"copy", "write", "fsync", "rename"}
               PROVE  dir'[target'[q]][Dest(q)] = None
    BY DEF NameStillFree, Occupied
  <1>1. dir[target'[q]][Dest(q)] = None
    BY CopyEntry DEF NameStillFree, Occupied, Serial, IInv
  <1>2. target'[q] \in Dirs /\ Dest(q) = <<FinalName[q], None>> /\ FinalName[q] \in Names
    BY NamesAssumption DEF TargetTaken, Copying, Dest
  <1>3. CASE FinalsSame
    BY <1>1, <1>2, <1>3 DEF FinalsSame
  <1>4. ASSUME NEW r \in Runs, Rename(r), Renamed(r) PROVE dir'[target'[q]][Dest(q)] = None
    <2>1. r # q
      BY <1>4 DEF Renamed
    <2>2. pc[q] = pc'[q]
      BY <1>4, <2>1 DEF Renamed
    <2>3. q \in LiveRuns /\ r \in LiveRuns
      BY <1>4, <2>2 DEF LiveRuns, Live, Copying, Renamed
    <2>4. FinalName[q] # FinalName[r]
      BY <2>1, <2>3 DEF LiveNames
    <2> QED
      BY <1>1, <1>2, <1>4, <2>4 DEF Renamed
  <1>5. CASE PowerLoss
    BY <1>5 DEF PowerLoss, IInv, TypeOK, Live, Copying, Deciding
  <1> QED
    BY <1>3, <1>4, <1>5, FinalsStep

\* A renamed file takes a name that was free.
LEMMA RenameIntoFree ==
  ASSUME NameStillFree, NEW r \in Runs, Renamed(r)
  PROVE  /\ dir[target[r]][<<FinalName[r], None>>] = None
         /\ \A d \in Dirs, n \in Names : dir[d][<<n, None>>] # None =>
               dir'[d][<<n, None>>] = dir[d][<<n, None>>]
  <1>1. dir[target[r]][<<FinalName[r], None>>] = None
    BY DEF NameStillFree, Renamed, Occupied, Dest
  <1> QED
    BY <1>1 DEF Renamed

LEMMA DiskBehindStep ==
  ASSUME IInv, NameStillFree, DiskBehind, [Next]_vars
  PROVE  DiskBehind'
  <1> SUFFICES ASSUME NEW d \in Dirs, NEW n \in Names
               PROVE  dirDisk'[d][<<n, None>>] \in {None, dir'[d][<<n, None>>]}
    BY DEF DiskBehind
  <1>1. dirDisk[d][<<n, None>>] \in {None, dir[d][<<n, None>>]}
    BY DEF DiskBehind
  <1>2. CASE PowerLoss
    BY <1>2 DEF PowerLoss, diskVars
  <1>3. ASSUME NEW r \in Runs, Renamed(r)
        PROVE  dirDisk'[d][<<n, None>>] \in {None, dir'[d][<<n, None>>]}
    BY <1>1, <1>3, RenameIntoFree DEF Renamed, diskVars
  <1>4. CASE FinalsSame /\ dirDisk' = dirDisk
    BY <1>1, <1>4 DEF FinalsSame
  <1>5. ASSUME NEW e \in Dirs, dirDisk' = [dirDisk EXCEPT ![e] = dir[e]], dir' = dir
        PROVE  dirDisk'[d][<<n, None>>] \in {None, dir'[d][<<n, None>>]}
    BY <1>1, <1>5 DEF IInv, TypeOK
  <1> QED
    BY <1>2, <1>3, <1>4, <1>5, FinalsStep, DiskStep DEF IInv

-----------------------------------------------------------------------------
(* Archives: what is delivered stays, and only its run put it there.       *)

\* A final file on disk is sealed: it reads there what it reads in memory.
LEMMA SealedOnDisk ==
  ASSUME IInv, NEW d \in Dirs, NEW n \in Names, dirDisk[d][<<n, None>>] # None
  PROVE  diskData[dirDisk[d][<<n, None>>]] = data[dirDisk[d][<<n, None>>]]
  BY DEF IInv, FinalsSealed, Sealed

\* What a power loss leaves under a final name was there before it.
LEMMA PowerKeepsFinals ==
  ASSUME IInv, DiskBehind, PowerLoss, NEW d \in Dirs, NEW n \in Names,
         dir'[d][<<n, None>>] # None
  PROVE  /\ dir'[d][<<n, None>>] = dir[d][<<n, None>>]
         /\ data'[dir[d][<<n, None>>]] = data[dir[d][<<n, None>>]]
  BY SealedOnDisk DEF PowerLoss, DiskBehind

\* The archive of q stays in d: the entry is on disk, or no power is lost.
LEMMA HoldsStay ==
  ASSUME IInv, NameStillFree, DiskBehind, [Next]_vars,
         NEW q \in Runs, NEW d \in Dirs, Holds(q, d),
         dirDisk[d][Dest(q)] = dir[d][Dest(q)] \/ ~PowerLoss
  PROVE  Holds(q, d)' /\ dir'[d][Dest(q)] = dir[d][Dest(q)]
  <1> DEFINE n == FinalName[q]
             i == dir[d][<<n, None>>]
  <1>1. n \in Names /\ Dest(q) = <<n, None>>
    BY NamesAssumption DEF Dest
  <1>2. i # None /\ data[i] = Artifact(q)
    BY <1>1 DEF Holds
  <1>3. CASE FinalsSame
    BY <1>1, <1>2, <1>3 DEF FinalsSame, Holds, Artifact
  <1>4. ASSUME NEW r \in Runs, Renamed(r)
        PROVE  Holds(q, d)' /\ dir'[d][Dest(q)] = dir[d][Dest(q)]
    <2>1. dir'[d][<<n, None>>] = i
      BY <1>1, <1>2, <1>4, RenameIntoFree
    <2>2. data' = data
      BY <1>4 DEF Renamed
    <2> QED
      BY <1>1, <1>2, <2>1, <2>2 DEF Holds, Artifact
  <1>5. CASE PowerLoss
    <2>1. dir'[d][<<n, None>>] = i
      BY <1>1, <1>5 DEF PowerLoss
    <2> QED
      BY <1>1, <1>2, <1>5, <2>1, PowerKeepsFinals DEF Holds, Artifact
  <1> QED
    BY <1>3, <1>4, <1>5, FinalsStep

\* Reporting adds to delivered the target whose directory was synced, or adds
\* it to warned as well.
LEMMA ReportStep ==
  ASSUME TypeOK, TargetTaken, [Next]_vars, NEW q \in Runs
  PROVE  \/ delivered'[q] \ warned'[q] \subseteq delivered[q] \ warned[q]
         \/ /\ pc[q] = "syncdir" /\ target[q] \in Dirs
            /\ delivered'[q] \ warned'[q] \subseteq (delivered[q] \ warned[q]) \cup {target[q]}
            /\ dirDisk' = [dirDisk EXCEPT ![target[q]] = dir[target[q]]] /\ dir' = dir
            /\ data' = data
  <1> DEFINE Goal == \/ delivered'[q] \ warned'[q] \subseteq delivered[q] \ warned[q]
                     \/ /\ pc[q] = "syncdir" /\ target[q] \in Dirs
                        /\ delivered'[q] \ warned'[q]
                              \subseteq (delivered[q] \ warned[q]) \cup {target[q]}
                        /\ dirDisk' = [dirDisk EXCEPT ![target[q]] = dir[target[q]]]
                        /\ dir' = dir /\ data' = data
  <1>1. ASSUME NEW r \in Runs, SyncDir(r) PROVE Goal
    BY <1>1 DEF SyncDir, Deliver, FlushDir, TypeOK, TargetTaken, Copying
  <1>2. ASSUME NEW r \in Runs, SyncDirFails(r) PROVE Goal
    BY <1>2 DEF SyncDirFails, Deliver, TypeOK
  <1>3. ASSUME UNCHANGED <<delivered, warned>> PROVE Goal
    BY <1>3
  <1>4. ASSUME NEW r \in Runs,
               Begin(r) \/ Kill(r) \/ (RunStep(r) /\ ~SyncDir(r) /\ ~SyncDirFails(r))
        PROVE  UNCHANGED <<delivered, warned>>
    BY <1>4
    DEF RunStep, Begin, Kill, PreCheck, Work, WorkFails, Recheck, NextTarget, OpenPart,
        WriteChunk, CloseCopy, Fsync, Rename, IOError, PartVanished, UnlinkPart, Return
  <1>5. ASSUME \/ PowerLoss \/ UNCHANGED vars
               \/ \E i \in Inodes, c \in Chunk : WritebackChunk(i, c)
               \/ \E d \in Dirs : WritebackDir(d)
        PROVE  UNCHANGED <<delivered, warned>>
    BY <1>5 DEF PowerLoss, WritebackChunk, WritebackDir, vars, runVars
  <1> QED
    BY <1>1, <1>2, <1>3, <1>4, <1>5 DEF Next, Done

LEMMA KeptStep ==
  ASSUME IInv, NameStillFree, DiskBehind, Kept, Owned, [Next]_vars
  PROVE  Kept'
  <1> SUFFICES ASSUME NEW q \in Runs, NEW d \in delivered'[q] \ warned'[q]
               PROVE  Holds(q, d)' /\ dirDisk'[d][Dest(q)] = dir'[d][Dest(q)]
    BY DEF Kept
  <1>1. TypeOK /\ TargetTaken
    BY DEF IInv
  <1>2. CASE d \in delivered[q] \ warned[q]
    <2>1. d \in Dirs /\ Holds(q, d) /\ dirDisk[d][Dest(q)] = dir[d][Dest(q)]
      BY <1>1, <1>2 DEF Kept, TypeOK
    <2>2. Holds(q, d)' /\ dir'[d][Dest(q)] = dir[d][Dest(q)]
      BY <2>1, HoldsStay
    <2>3. CASE dirDisk' = dirDisk
      BY <2>1, <2>2, <2>3
    <2>4. ASSUME NEW e \in Dirs, dirDisk' = [dirDisk EXCEPT ![e] = dir[e]], dir' = dir
          PROVE  dirDisk'[d][Dest(q)] = dir'[d][Dest(q)]
      BY <1>1, <2>1, <2>4 DEF TypeOK
    <2> QED
      BY <1>1, <2>2, <2>3, <2>4, DiskStep
  <1>3. CASE d \notin delivered[q] \ warned[q]
    <2>1. /\ pc[q] = "syncdir" /\ d = target[q] /\ d \in Dirs
          /\ dirDisk' = [dirDisk EXCEPT ![d] = dir[d]] /\ dir' = dir /\ data' = data
      BY <1>1, <1>3, ReportStep
    <2>2. Holds(q, d)
      BY <2>1 DEF Owned
    <2> QED
      BY <1>1, <2>1, <2>2 DEF Holds, Artifact, TypeOK
  <1> QED
    BY <1>2, <1>3

\* Two artifacts are told apart by any chunk.
LEMMA ArtifactsDiffer ==
  ASSUME NEW q \in Runs, NEW r \in Runs, Artifact(q) = Artifact(r)
  PROVE  q = r
  <1>1. 1 \in Chunk
    BY ChunksAssumption DEF Chunk
  <1>2. Artifact(q)[1] = q /\ Artifact(r)[1] = r
    BY <1>1 DEF Artifact
  <1> QED
    BY <1>2

\* An archive that is in place after a step was there before, or has just
\* been renamed there by its own run.
LEMMA HoldsFrom ==
  ASSUME IInv, NameStillFree, DiskBehind, [Next]_vars,
         NEW q \in Runs, NEW d \in Dirs, Holds(q, d)'
  PROVE  \/ Holds(q, d)
         \/ pc'[q] = "syncdir" /\ target'[q] = d
  <1> DEFINE n == FinalName[q]
  <1>1. n \in Names /\ Dest(q) = <<n, None>>
    BY NamesAssumption DEF Dest
  <1>2. dir'[d][<<n, None>>] # None /\ data'[dir'[d][<<n, None>>]] = Artifact(q)
    BY <1>1 DEF Holds, Artifact
  <1>3. ASSUME dir'[d][<<n, None>>] = dir[d][<<n, None>>],
               data'[dir[d][<<n, None>>]] = data[dir[d][<<n, None>>]]
        PROVE  Holds(q, d)
    BY <1>1, <1>2, <1>3 DEF Holds
  <1>4. CASE FinalsSame
    BY <1>1, <1>2, <1>3, <1>4 DEF FinalsSame
  <1>5. ASSUME NEW r \in Runs, Renamed(r)
        PROVE  Holds(q, d) \/ (pc'[q] = "syncdir" /\ target'[q] = d)
    <2>1. CASE d = target[r] /\ n = FinalName[r]
      <3>1. data'[dir'[d][<<n, None>>]] = Artifact(r)
        BY <1>1, <1>5, <2>1 DEF Renamed
      <3>2. q = r
        BY <1>2, <3>1, ArtifactsDiffer
      <3> QED
        BY <1>5, <2>1, <3>2 DEF Renamed
    <2>2. CASE ~(d = target[r] /\ n = FinalName[r])
      <3>1. dir'[d][<<n, None>>] = dir[d][<<n, None>>] /\ data' = data
        BY <1>1, <1>5, <2>2 DEF Renamed
      <3> QED
        BY <1>3, <3>1
    <2> QED
      BY <2>1, <2>2
  <1>6. CASE PowerLoss
    BY <1>1, <1>2, <1>3, <1>6, PowerKeepsFinals
  <1> QED
    BY <1>4, <1>5, <1>6, FinalsStep

\* A run leaves "syncdir" by reporting its target or by dying, enters it by
\* the rename, and never takes a report back.
LEMMA ReportingStep ==
  ASSUME TypeOK, [Next]_vars, NEW q \in Runs
  PROVE  /\ pc'[q] = "syncdir" => \/ pc[q] = "syncdir" /\ target'[q] = target[q]
                                 \/ Rename(q)
         /\ pc[q] = "syncdir" => \/ pc'[q] = "syncdir" /\ target'[q] = target[q]
                                \/ pc'[q] = "crashed"
                                \/ target[q] \in delivered'[q]
         /\ pc[q] = "crashed" => pc'[q] = "crashed"
         /\ delivered[q] \subseteq delivered'[q]
  <1> DEFINE Goal ==
         /\ pc'[q] = "syncdir" => \/ pc[q] = "syncdir" /\ target'[q] = target[q]
                                 \/ Rename(q)
         /\ pc[q] = "syncdir" => \/ pc'[q] = "syncdir" /\ target'[q] = target[q]
                                \/ pc'[q] = "crashed"
                                \/ target[q] \in delivered'[q]
         /\ pc[q] = "crashed" => pc'[q] = "crashed"
         /\ delivered[q] \subseteq delivered'[q]
  <1> USE DEF TypeOK, Goto
  <1>1. ASSUME UNCHANGED <<pc, target, delivered>> PROVE Goal
    BY <1>1
  <1>2. ASSUME NEW r \in Runs, Begin(r) \/ PreCheck(r) \/ Work(r) \/ WorkFails(r) \/ Recheck(r)
        PROVE  Goal
    BY <1>2 DEF Begin, PreCheck, Work, WorkFails, Recheck, Idle
  <1>3. ASSUME NEW r \in Runs, NextTarget(r) PROVE Goal
    BY <1>3 DEF NextTarget
  <1>4. ASSUME NEW r \in Runs, OpenPart(r) \/ WriteChunk(r) \/ CloseCopy(r) \/ Fsync(r)
        PROVE  Goal
    BY <1>4 DEF OpenPart, WriteChunk, CloseCopy, Fsync
  <1>5. ASSUME NEW r \in Runs, Rename(r) PROVE Goal
    BY <1>5 DEF Rename
  <1>6. ASSUME NEW r \in Runs, SyncDir(r) \/ SyncDirFails(r) PROVE Goal
    BY <1>6 DEF SyncDir, SyncDirFails, Deliver
  <1>7. ASSUME NEW r \in Runs, IOError(r) \/ PartVanished(r) \/ UnlinkPart(r) PROVE Goal
    BY <1>7 DEF IOError, PartVanished, UnlinkPart
  <1>8. ASSUME NEW r \in Runs, Return(r) \/ Kill(r) PROVE Goal
    BY <1>8 DEF Return, Kill, Live, Copying, Deciding
  <1>9. ASSUME PowerLoss PROVE Goal
    BY <1>9 DEF PowerLoss, Live, Copying, Deciding
  <1> QED
    BY <1>1, <1>2, <1>3, <1>4, <1>5, <1>6, <1>7, <1>8, <1>9
    DEF Next, RunStep, Done, WritebackDir, WritebackChunk, vars, runVars

LEMMA OwnedStep ==
  ASSUME IInv, IInv', NameStillFree, DiskBehind, Owned, [Next]_vars
  PROVE  Owned'
  <1> SUFFICES ASSUME NEW q \in Runs
               PROVE  /\ pc'[q] = "syncdir" => Holds(q, target[q])'
                      /\ \A d \in Dirs : Holds(q, d)' =>
                            \/ d \in delivered'[q] \/ pc'[q] = "crashed"
                            \/ (pc'[q] = "syncdir" /\ target'[q] = d)
    BY DEF Owned
  <1>1. TypeOK /\ TargetTaken /\ TypeOK' /\ TargetTaken'
    BY DEF IInv
  <1>2. ASSUME pc'[q] = "syncdir" PROVE Holds(q, target[q])'
    <2>1. target'[q] \in Dirs
      BY <1>1, <1>2 DEF TargetTaken, Copying
    <2>2. CASE pc[q] = "syncdir" /\ target'[q] = target[q]
      <3>1. Holds(q, target[q])
        BY <2>2 DEF Owned
      <3>2. ~PowerLoss
        BY <1>1, <1>2, <2>2 DEF PowerLoss, TypeOK, Live, Copying
      <3>3. ASSUME NEW d \in Dirs, d = target[q] PROVE Holds(q, d)'
        BY <3>1, <3>2, <3>3, HoldsStay
      <3> QED
        BY <2>1, <2>2, <3>3 DEF Holds
    <2>3. CASE Rename(q)
      <3>1. Renamed(q)
        BY <2>3, RenameRenames
      <3>2. target' = target /\ FinalName[q] \in Names /\ Dest(q) = <<FinalName[q], None>>
        BY <2>3, NamesAssumption DEF Rename, Dest
      <3> QED
        BY <2>1, <3>1, <3>2 DEF Renamed, Holds, Artifact
    <2> QED
      BY <1>1, <1>2, <2>2, <2>3, ReportingStep
  <1>3. ASSUME NEW d \in Dirs, Holds(q, d)'
        PROVE  \/ d \in delivered'[q] \/ pc'[q] = "crashed"
               \/ (pc'[q] = "syncdir" /\ target'[q] = d)
    <2>1. CASE Holds(q, d)
      <3>1. \/ d \in delivered[q] \/ pc[q] = "crashed"
            \/ (pc[q] = "syncdir" /\ target[q] = d)
        BY <2>1 DEF Owned
      <3> QED
        BY <1>1, <3>1, ReportingStep
    <2> QED
      BY <1>3, <2>1, HoldsFrom
  <1> QED
    BY <1>2, <1>3

-----------------------------------------------------------------------------
(* The account of a run: every target in exactly one place.                *)

LEMMA OthersKeepAccounts ==
  ASSUME NEW q \in Runs, Account(q), pc'[q] = pc[q], todo'[q] = todo[q],
         target'[q] = target[q], delivered'[q] = delivered[q], failures'[q] = failures[q]
  PROVE  Account(q)'
  BY DEF Account, AtHand

\* Another run's books are not touched by a step of r.
LEMMA OthersBooks ==
  ASSUME TypeOK, NEW r \in Runs, Begin(r) \/ RunStep(r) \/ Kill(r)
  PROVE  \A q \in Runs \ {r} :
            /\ pc'[q] = pc[q] /\ todo'[q] = todo[q] /\ target'[q] = target[q]
            /\ delivered'[q] = delivered[q] /\ failures'[q] = failures[q]
  <1> USE DEF TypeOK, fsVars, Goto
  <1>1. CASE Begin(r)
    BY <1>1 DEF Begin
  <1>2. CASE PreCheck(r) \/ Work(r) \/ WorkFails(r)
    BY <1>2 DEF PreCheck, Work, WorkFails
  <1>3. CASE Recheck(r)
    BY <1>3 DEF Recheck
  <1>4. CASE NextTarget(r)
    BY <1>4 DEF NextTarget, Skip
  <1>5. CASE OpenPart(r) \/ WriteChunk(r) \/ CloseCopy(r)
    BY <1>5 DEF OpenPart, WriteChunk, CloseCopy
  <1>6. CASE Fsync(r) \/ Rename(r)
    BY <1>6 DEF Fsync, Rename
  <1>7. CASE SyncDir(r) \/ SyncDirFails(r)
    BY <1>7 DEF SyncDir, SyncDirFails, Deliver
  <1>8. CASE IOError(r) \/ PartVanished(r) \/ UnlinkPart(r)
    BY <1>8 DEF IOError, PartVanished, UnlinkPart
  <1>9. CASE Return(r) \/ Kill(r)
    BY <1>9 DEF Return, Kill
  <1> QED
    BY <1>1, <1>2, <1>3, <1>4, <1>5, <1>6, <1>7, <1>8, <1>9 DEF RunStep

\* The steps of the copy: the target stays at hand.
LEMMA CopyingKeepsAccount ==
  ASSUME NEW r \in Runs, Account(r), pc[r] \in Copying, pc'[r] \in Copying,
         todo'[r] = todo[r], target'[r] = target[r],
         delivered'[r] = delivered[r], failures'[r] = failures[r]
  PROVE  Account(r)'
  BY DEF Account, AtHand, Copying, Idle

\* A target at hand is delivered, or fails.
LEMMA SettlingKeepsAccount ==
  ASSUME NEW r \in Runs, Account(r), pc[r] \in Copying, pc'[r] = "loop",
         target[r] \notin todo[r], todo'[r] = todo[r],
         \/ /\ delivered'[r] = delivered[r] \cup {target[r]}
            /\ failures'[r] = failures[r]
         \/ /\ delivered'[r] = delivered[r]
            /\ failures'[r] = failures[r] \cup {target[r]}
  PROVE  Account(r)'
  <1>1. AtHand(r) = {target[r]} /\ AtHand(r)' = {}
    BY DEF AtHand, Copying
  <1>2. /\ todo[r] \cup {target[r]} \cup delivered[r] \cup failures[r] = TargetsOf[r]
        /\ delivered[r] \cap failures[r] = {}
        /\ (todo[r] \cup {target[r]}) \cap (delivered[r] \cup failures[r]) = {}
    BY <1>1 DEF Account
  <1>3. /\ todo'[r] \cup delivered'[r] \cup failures'[r] = TargetsOf[r]
        /\ delivered'[r] \cap failures'[r] = {}
        /\ todo'[r] \cap (delivered'[r] \cup failures'[r]) = {}
    BY <1>2
  <1> QED
    BY <1>1, <1>3 DEF Account, Idle

LEMMA OwnAccount ==
  ASSUME TypeOK, TargetTaken, NEW r \in Runs, Account(r), Begin(r) \/ RunStep(r) \/ Kill(r)
  PROVE  Account(r)'
  <1> USE DEF TypeOK, fsVars, Goto
  <1>1. CASE Begin(r) \/ PreCheck(r) \/ Work(r) \/ WorkFails(r)
    BY <1>1 DEF Begin, PreCheck, Work, WorkFails, Account, Idle, Copying
  <1>2. CASE Recheck(r)
    BY <1>2 DEF Recheck, Account, AtHand, Idle, Copying
  <1>3. CASE NextTarget(r)
    <2>1. PICK d \in todo[r] :
             /\ todo' = [todo EXCEPT ![r] = @ \ {d}]
             /\ \/ /\ failures' = [failures EXCEPT ![r] = @ \cup {d}]
                   /\ UNCHANGED <<pc, target>>
                \/ /\ target' = [target EXCEPT ![r] = d]
                   /\ Goto(r, "copy")
                   /\ UNCHANGED failures
      BY <1>3 DEF NextTarget, Skip
    <2>2. pc[r] = "loop" /\ delivered' = delivered /\ AtHand(r) = {}
      BY <1>3 DEF NextTarget, AtHand, Copying
    <2>3. /\ todo[r] \cup delivered[r] \cup failures[r] = TargetsOf[r]
          /\ delivered[r] \cap failures[r] = {}
          /\ todo[r] \cap (delivered[r] \cup failures[r]) = {}
      BY <2>2 DEF Account
    <2>4. CASE UNCHANGED <<pc, target>> /\ failures' = [failures EXCEPT ![r] = @ \cup {d}]
      <3>1. todo'[r] = todo[r] \ {d} /\ failures'[r] = failures[r] \cup {d}
        BY <2>1, <2>4
      <3>2. AtHand(r)' = {}
        BY <2>2, <2>4 DEF AtHand, Copying
      <3>3. /\ todo'[r] \cup delivered[r] \cup failures'[r] = TargetsOf[r]
            /\ delivered[r] \cap failures'[r] = {}
            /\ todo'[r] \cap (delivered[r] \cup failures'[r]) = {}
        BY <2>3, <3>1
      <3> QED
        BY <2>2, <2>4, <3>2, <3>3 DEF Account, Idle
    <2>5. CASE target' = [target EXCEPT ![r] = d] /\ Goto(r, "copy") /\ UNCHANGED failures
      <3>1. todo'[r] = todo[r] \ {d} /\ pc'[r] = "copy" /\ AtHand(r)' = {d}
        BY <2>1, <2>5 DEF AtHand, Copying
      <3>2. /\ todo'[r] \cup {d} \cup delivered[r] \cup failures[r] = TargetsOf[r]
            /\ (todo'[r] \cup {d}) \cap (delivered[r] \cup failures[r]) = {}
        BY <2>3, <3>1
      <3> QED
        BY <2>2, <2>3, <2>5, <3>1, <3>2 DEF Account, Idle
    <2> QED
      BY <2>1, <2>4, <2>5
  <1>4. CASE OpenPart(r) \/ WriteChunk(r) \/ CloseCopy(r) \/ Fsync(r) \/ Rename(r)
             \/ IOError(r) \/ PartVanished(r)
    <2>1. pc[r] \in Copying /\ pc'[r] \in Copying
      BY <1>4 DEF OpenPart, WriteChunk, CloseCopy, Fsync, Rename, IOError, PartVanished, Copying
    <2>2. UNCHANGED <<todo, target, delivered, failures>>
      BY <1>4 DEF OpenPart, WriteChunk, CloseCopy, Fsync, Rename, IOError, PartVanished
    <2> QED
      BY <2>1, <2>2, CopyingKeepsAccount
  <1>5. CASE SyncDir(r) \/ SyncDirFails(r) \/ UnlinkPart(r)
    <2>1. pc[r] \in Copying /\ pc'[r] = "loop" /\ todo' = todo
      BY <1>5 DEF SyncDir, SyncDirFails, UnlinkPart, Deliver, Copying
    <2>2. \/ delivered'[r] = delivered[r] \cup {target[r]} /\ failures'[r] = failures[r]
          \/ delivered'[r] = delivered[r] /\ failures'[r] = failures[r] \cup {target[r]}
      BY <1>5 DEF SyncDir, SyncDirFails, UnlinkPart, Deliver
    <2> QED
      BY <2>1, <2>2, SettlingKeepsAccount DEF TargetTaken
  <1>6. CASE Return(r)
    BY <1>6 DEF Return, AllVisited, Account, AtHand, Idle, Copying
  <1>7. CASE Kill(r)
    BY <1>7 DEF Kill, Account, Idle, Copying
  <1> QED
    BY <1>1, <1>2, <1>3, <1>4, <1>5, <1>6, <1>7 DEF RunStep

LEMMA AccountsStep ==
  ASSUME TypeOK, TargetTaken, Accounts, [Next]_vars
  PROVE  Accounts'
  <1> SUFFICES ASSUME NEW q \in Runs PROVE Account(q)'
    BY DEF Accounts
  <1>1. Account(q)
    BY DEF Accounts
  <1>2. ASSUME NEW r \in Runs, Begin(r) \/ RunStep(r) \/ Kill(r) PROVE Account(q)'
    BY <1>1, <1>2, OwnAccount, OthersBooks, OthersKeepAccounts
  <1>3. CASE PowerLoss
    BY <1>1, <1>3 DEF PowerLoss, TypeOK, Account, AtHand, Idle, Copying, Live, Deciding
  <1>4. CASE UNCHANGED runVars
    BY <1>1, <1>4, OthersKeepAccounts DEF runVars
  <1> QED
    BY <1>2, <1>3, <1>4 DEF Next, Done, WritebackDir, WritebackChunk, vars

-----------------------------------------------------------------------------
(* The theorems about the report.                                          *)

LEMMA StoreInit == Init => StoreInv
  <1> SUFFICES ASSUME Init PROVE StoreInv
    OBVIOUS
  <1>1. LiveRuns = {}
    BY DEF Init, LiveRuns, Idle, Live, Deciding, Copying
  <1>2. \A d \in Dirs, n \in Names : dir[d][<<n, None>>] = None /\ dirDisk[d][<<n, None>>] = None
    BY Names2 DEF Init
  <1>3. LiveNames /\ DiskBehind
    BY <1>1, <1>2 DEF LiveNames, DiskBehind
  <1>4. NameStillFree /\ Kept /\ Accounts
    BY DEF Init, NameStillFree, Kept, Accounts, Account, Idle, Copying
  <1>5. \A r \in Runs, d \in Dirs : ~Holds(r, d)
    BY <1>2, NamesAssumption DEF Holds, Dest
  <1>6. Owned
    BY <1>5 DEF Init, Owned, Idle
  <1> QED
    BY <1>3, <1>4, <1>6 DEF StoreInv

LEMMA StoreStep == IInv /\ IInv' /\ StoreInv /\ Serial /\ [Next]_vars => StoreInv'
  <1> SUFFICES ASSUME IInv, IInv', StoreInv, Serial, [Next]_vars PROVE StoreInv'
    OBVIOUS
  <1>1. /\ LiveNames /\ NameStillFree /\ DiskBehind /\ Kept /\ Owned /\ Accounts
        /\ TypeOK /\ TargetTaken /\ TypeOK' /\ TargetTaken' /\ NoRivals
    BY DEF StoreInv, IInv, Serial
  <1>2. LiveNames' /\ NameStillFree'
    BY <1>1, LiveNamesStep, NamesFreeStep
  <1>3. DiskBehind' /\ Kept'
    BY <1>1, DiskBehindStep, KeptStep
  <1>4. Owned' /\ Accounts'
    BY <1>1, OwnedStep, AccountsStep
  <1> QED
    BY <1>2, <1>3, <1>4 DEF StoreInv

\* As long as no two runs of one file name overlap and exists() sees what is
\* there: a name found free stays free until the rename, the disk never
\* disagrees with memory under a final name, what is delivered without a
\* warning is on disk, only its own run puts an archive in place, and every
\* target is accounted for once.
THEOREM StoreAlwaysInOrder == Serial /\ Spec => []StoreInv
  <1>1. CASE Serial
    <2>1. Spec => []IInv
      BY <1>1, FilesAlwaysInOrder DEF Serial, PartsApart
    <2>2. IInv /\ IInv' /\ StoreInv /\ [Next]_vars => StoreInv'
      BY <1>1, StoreStep
    <2> QED
      BY <2>1, <2>2, StoreInit, PTL DEF Spec
  <1>2. CASE ~Serial
    BY <1>2
  <1> QED
    BY <1>1, <1>2

\* A target that a run counts as delivered without a warning keeps the run's
\* archive from then on, through later runs, kills and power losses: the two
\* fsyncs of deliver_one around the rename.
THEOREM ReportedAlwaysStays == Serial /\ Spec => []ReportedStays
  <1>1. StoreInv => ReportedStays
    BY DEF StoreInv, Kept, ReportedStays
  <1> QED
    BY <1>1, StoreAlwaysInOrder, PTL

\* What a finished run reports is what is on the targets: every target is
\* delivered or failed, not both, and the archive is there or is not.
THEOREM ReportAlwaysTruthful == Serial /\ Spec => []ReportTruthful
  <1>1. IInv /\ StoreInv => ReportTruthful
    <2> SUFFICES ASSUME IInv, StoreInv, NEW r \in Runs, pc[r] = "returned"
                 PROVE  /\ delivered[r] \cup failures[r] = TargetsOf[r]
                        /\ delivered[r] \cap failures[r] = {}
                        /\ \A d \in delivered[r] \ warned[r] : Holds(r, d)
                        /\ \A d \in failures[r] : ~Holds(r, d)
      BY DEF ReportTruthful
    <2>1. /\ delivered[r] \cup failures[r] = TargetsOf[r]
          /\ delivered[r] \cap failures[r] = {}
      BY DEF StoreInv, Accounts, Account, AtHand, Copying
    <2>2. \A d \in delivered[r] \ warned[r] : Holds(r, d)
      BY DEF StoreInv, Kept
    <2>3. ASSUME NEW d \in failures[r], Holds(r, d) PROVE FALSE
      <3>1. d \in Dirs
        BY DEF IInv, TypeOK
      <3>2. d \in delivered[r]
        BY <2>3, <3>1 DEF StoreInv, Owned
      <3> QED
        BY <2>1, <3>2
    <2> QED
      BY <2>1, <2>2, <2>3
  <1>2. Serial /\ Spec => []IInv
    <2>1. Serial => PartsApart
      BY DEF Serial, PartsApart
    <2> QED
      BY <2>1, FilesAlwaysInOrder
  <1> QED
    BY <1>1, <1>2, StoreAlwaysInOrder, PTL

-----------------------------------------------------------------------------
(* Overlapping runs of one file name.                                      *)

\* A run begins to copy to a directory only where it has seen its name free.
LEMMA CopyBegins ==
  ASSUME TypeOK, "stat" \notin Faults, [Next]_vars, NEW r \in Runs, NEW d \in Dirs,
         pc'[r] \in Copying, target'[r] = d
  PROVE  (pc[r] \in Copying /\ target[r] = d) \/ ~Occupied(r, d)
  <1> USE DEF TypeOK, Goto, Copying
  <1>1. CASE NextTarget(r)
    BY <1>1 DEF NextTarget
  <1>2. CASE Begin(r) \/ PreCheck(r) \/ Work(r) \/ WorkFails(r) \/ Recheck(r)
    BY <1>2 DEF Begin, PreCheck, Work, WorkFails, Recheck
  <1>3. CASE OpenPart(r) \/ WriteChunk(r) \/ CloseCopy(r) \/ Fsync(r) \/ Rename(r)
    BY <1>3 DEF OpenPart, WriteChunk, CloseCopy, Fsync, Rename
  <1>4. CASE SyncDir(r) \/ SyncDirFails(r) \/ IOError(r) \/ PartVanished(r) \/ UnlinkPart(r)
    BY <1>4 DEF SyncDir, SyncDirFails, Deliver, IOError, PartVanished, UnlinkPart
  <1>5. CASE Return(r) \/ Kill(r)
    BY <1>5 DEF Return, Kill
  <1>6. ASSUME NEW q \in Runs \ {r}, Begin(q) \/ RunStep(q) \/ Kill(q)
        PROVE  pc'[r] = pc[r] /\ target'[r] = target[r]
    <2>1. CASE Begin(q)
      BY <1>6, <2>1 DEF Begin
    <2> QED
      BY <1>6, <2>1, OwnStep
  <1>7. CASE PowerLoss
    BY <1>7 DEF PowerLoss, Live
  <1>8. ASSUME UNCHANGED runVars PROVE pc[r] \in Copying /\ target[r] = d
    BY <1>8 DEF runVars
  <1> QED
    BY <1>1, <1>2, <1>3, <1>4, <1>5, <1>6, <1>7, <1>8
    DEF Next, RunStep, Done, WritebackDir, WritebackChunk, vars

LEMMA LateStays ==
  ASSUME IInv, "stat" \notin Faults, [Next]_vars, NEW r \in Runs, NEW d \in Dirs, Late(r, d)
  PROVE  Late(r, d)' \/ dir' = dirDisk
  <1> DEFINE n == FinalName[r]
  <1>1. n \in Names /\ Dest(r) = <<n, None>> /\ dir[d][<<n, None>>] # None
    BY NamesAssumption DEF Dest, Late, Occupied
  <1>2. data[dir[d][<<n, None>>]] # Artifact(r)
    BY <1>1 DEF Late, Holds, Occupied
  <1>3. ~(pc'[r] \in Copying /\ target'[r] = d)
    BY CopyBegins DEF Late, IInv
  <1>4. ASSUME dir'[d][<<n, None>>] # None, data'[dir'[d][<<n, None>>]] # Artifact(r)
        PROVE  Late(r, d)'
    <2>1. Artifact(r)' = Artifact(r) /\ Dest(r)' = <<n, None>>
      BY <1>1 DEF Artifact, Dest
    <2> QED
      BY <1>3, <1>4, <2>1 DEF Late, Holds, Occupied
  <1>5. CASE FinalsSame
    BY <1>1, <1>2, <1>4, <1>5 DEF FinalsSame
  <1>6. ASSUME NEW q \in Runs, Renamed(q) PROVE Late(r, d)'
    <2>1. CASE target[q] = d /\ FinalName[q] = n
      <3>1. q # r
        BY <1>6, <2>1 DEF Renamed, Late, Copying
      <3>2. dir'[d][<<n, None>>] # None /\ data'[dir'[d][<<n, None>>]] = Artifact(q)
        BY <1>1, <1>6, <2>1 DEF Renamed
      <3> QED
        BY <1>4, <3>1, <3>2, ArtifactsDiffer
    <2>2. CASE ~(target[q] = d /\ FinalName[q] = n)
      <3>1. dir'[d][<<n, None>>] = dir[d][<<n, None>>] /\ data' = data
        BY <1>1, <1>6, <2>2 DEF Renamed
      <3> QED
        BY <1>1, <1>2, <1>4, <3>1
    <2> QED
      BY <2>1, <2>2
  <1>7. CASE PowerLoss
    BY <1>7 DEF PowerLoss
  <1> QED
    BY <1>5, <1>6, <1>7, FinalsStep

\* A run that has not begun to copy to a target when another archive takes its
\* file name there never replaces that archive, however many runs overlap, as
\* long as their process ids differ and Path::exists sees the file: the check
\* in deliver's loop is the last one that has to see it.
THEOREM LatecomersNeverOverwrite ==
    PartsApart /\ "stat" \notin Faults /\ Spec => NoLateOverwrite
  <1>1. CASE PartsApart /\ "stat" \notin Faults
    <2>1. Spec => []IInv
      BY <1>1, FilesAlwaysInOrder
    <2>2. IInv /\ [Next]_vars
             => [\A r \in Runs, d \in Dirs : Late(r, d) => Late(r, d)' \/ dir' = dirDisk]_vars
      BY <1>1, LateStays
    <2> QED
      BY <2>1, <2>2, PTL DEF Spec, NoLateOverwrite
  <1>2. CASE ~(PartsApart /\ "stat" \notin Faults)
    BY <1>2
  <1> QED
    BY <1>1, <1>2

-----------------------------------------------------------------------------
(* No part is left.  This needs neither process ids nor names to differ:   *)
(* whoever shares a part, the last of its runs removes it.                 *)

\* Nothing stops a run before it has removed its part.
ErrorPathRuns == Faults \cap {"kill", "power", "unlink"} = {}

HasPart(r) == pc[r] \in {"write", "fsync", "rename", "unlink"}
PartsOwned ==
    \A d \in Dirs, e \in Entry : dir[d][e] # None /\ e[2] # None =>
        \E r \in Runs : HasPart(r) /\ target[r] = d /\ Part(r) = e

LEMMA PartsOwnedStep ==
  ASSUME TypeOK, TargetTaken, PartsOwned, ErrorPathRuns, [Next]_vars
  PROVE  PartsOwned'
  <1> SUFFICES ASSUME NEW d \in Dirs, NEW e \in Entry, dir'[d][e] # None, e[2] # None
               PROVE  \E r \in Runs : HasPart(r)' /\ target'[r] = d /\ Part(r) = e
    BY DEF PartsOwned, Part
  <1> DEFINE Goal == \E r \in Runs : HasPart(r)' /\ target'[r] = d /\ Part(r) = e
  <1>1. ASSUME NEW r \in Runs, RunStep(r), dir[d][e] # None,
               ~(HasPart(r) /\ target[r] = d /\ Part(r) = e)
        PROVE  Goal
    <2>1. PICK q \in Runs : HasPart(q) /\ target[q] = d /\ Part(q) = e
      BY <1>1 DEF PartsOwned
    <2>2. q # r
      BY <1>1, <2>1
    <2>3. pc'[q] = pc[q] /\ target'[q] = target[q]
      BY <1>1, <2>2, OwnStep
    <2> QED
      BY <2>1, <2>3 DEF HasPart
  <1>2. ASSUME UNCHANGED <<dir, pc, target>> PROVE Goal
    BY <1>2 DEF PartsOwned, HasPart
  <1>3. ASSUME NEW r \in Runs, RunStep(r), dir' = dir,
               HasPart(r) => HasPart(r)' /\ target'[r] = target[r]
        PROVE  Goal
    BY <1>1, <1>3
  <1>4. ASSUME NEW r \in Runs,
               \/ PreCheck(r) \/ Work(r) \/ WorkFails(r) \/ Recheck(r) \/ NextTarget(r)
               \/ WriteChunk(r) \/ CloseCopy(r) \/ Fsync(r) \/ SyncDir(r) \/ SyncDirFails(r)
               \/ IOError(r) \/ PartVanished(r) \/ Return(r)
        PROVE  dir' = dir /\ (HasPart(r) => HasPart(r)' /\ target'[r] = target[r])
    BY <1>4
    DEF HasPart, TypeOK, Goto, fsVars, PreCheck, Work, WorkFails, Recheck, NextTarget,
        WriteChunk, CloseCopy, Fsync, SyncDir, SyncDirFails, Deliver, IOError,
        PartVanished, Return
  <1>5. ASSUME NEW r \in Runs, OpenPart(r) PROVE Goal
    <2> DEFINE i == IF dir[target[r]][Part(r)] = None THEN <<r, target[r]>>
                                                      ELSE dir[target[r]][Part(r)]
    <2>1. /\ dir' = [dir EXCEPT ![target[r]][Part(r)] = i]
          /\ pc[r] = "copy" /\ pc'[r] = "write" /\ target' = target
      BY <1>5 DEF OpenPart, Goto, TypeOK
    <2> HIDE DEF i
    <2>2. CASE target[r] = d /\ Part(r) = e
      BY <2>1, <2>2 DEF HasPart
    <2>3. CASE ~(target[r] = d /\ Part(r) = e)
      <3>1. dir'[d][e] = dir[d][e]
        BY <2>1, <2>3 DEF TypeOK
      <3> QED
        BY <1>1, <1>5, <2>3, <3>1 DEF RunStep
    <2> QED
      BY <2>2, <2>3
  <1>6. ASSUME NEW r \in Runs, Rename(r) PROVE Goal
    <2>1. /\ dir' = [dir EXCEPT ![target[r]][Dest(r)] = dir[target[r]][Part(r)],
                                ![target[r]][Part(r)] = None]
          /\ target[r] \in Dirs /\ e # Dest(r) /\ Dest(r) \in Entry /\ Part(r) \in Entry
      BY <1>6, Names2 DEF Rename, TargetTaken, Copying
    <2>2. ~(target[r] = d /\ Part(r) = e)
      BY <2>1 DEF TypeOK
    <2>3. dir'[d][e] = dir[d][e]
      BY <2>1, <2>2 DEF TypeOK
    <2> QED
      BY <1>1, <1>6, <2>2, <2>3 DEF RunStep
  <1>7. ASSUME NEW r \in Runs, UnlinkPart(r) PROVE Goal
    <2>1. dir' = [dir EXCEPT ![target[r]][Part(r)] = None]
      BY <1>7 DEF UnlinkPart, RemovePart, ErrorPathRuns
    <2>2. ~(target[r] = d /\ Part(r) = e)
      BY <2>1 DEF TypeOK
    <2>3. dir'[d][e] = dir[d][e]
      BY <2>1, <2>2 DEF TypeOK
    <2> QED
      BY <1>1, <1>7, <2>2, <2>3 DEF RunStep
  <1>8. ASSUME NEW r \in Runs, Begin(r) PROVE Goal
    <2>1. pc[r] = Idle /\ dir' = dir /\ target' = target
          /\ \A q \in Runs \ {r} : pc'[q] = pc[q]
      BY <1>8 DEF Begin, Goto, TypeOK, fsVars
    <2>2. PICK q \in Runs : HasPart(q) /\ target[q] = d /\ Part(q) = e
      BY <2>1 DEF PartsOwned
    <2>3. pc'[q] = pc[q]
      BY <2>1, <2>2 DEF HasPart, Idle
    <2> QED
      BY <2>1, <2>2, <2>3 DEF HasPart
  <1>9. ASSUME NEW r \in Runs, Kill(r) PROVE FALSE
    BY <1>9 DEF Kill, ErrorPathRuns
  <1>10. ASSUME PowerLoss PROVE FALSE
    BY <1>10 DEF PowerLoss, ErrorPathRuns
  <1>11. CASE Done \/ (\E b \in Dirs : WritebackDir(b)) \/ UNCHANGED vars
             \/ (\E i \in Inodes, c \in Chunk : WritebackChunk(i, c))
    BY <1>2, <1>11 DEF Done, WritebackDir, WritebackChunk, vars, runVars, fsVars
  <1>12. ASSUME NEW r \in Runs, RunStep(r) PROVE Goal
    BY <1>3, <1>4, <1>5, <1>6, <1>7, <1>12 DEF RunStep
  <1> QED
    BY <1>8, <1>9, <1>10, <1>11, <1>12 DEF Next

\* The error path of deliver_one: once no run is alive, no part is left in any
\* target, whatever failed and whichever runs shared a part name, unless a run
\* was killed, the power failed, or the removal itself did.
THEOREM NoPartStays == ErrorPathRuns /\ Spec => []NoPartLeft
  <1>1. CASE ErrorPathRuns
    <2>1. Init => TypeOK /\ TargetTaken /\ PartsOwned
      BY TypeInit DEF Init, PartsOwned
    <2>2. TypeOK /\ TargetTaken /\ PartsOwned /\ [Next]_vars
             => TypeOK' /\ TargetTaken' /\ PartsOwned'
      BY <1>1, TypeStep, PartsOwnedStep
    <2>3. PartsOwned => NoPartLeft
      BY DEF PartsOwned, NoPartLeft, HasPart, LiveRuns, Live, Copying
    <2> QED
      BY <2>1, <2>2, <2>3, PTL DEF Spec
  <1>2. CASE ~ErrorPathRuns
    BY <1>2
  <1> QED
    BY <1>1, <1>2
=============================================================================
