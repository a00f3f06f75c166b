--------------------------- MODULE DeliveryProofs ---------------------------
(***************************************************************************)
(* What holds of Delivery for any number of runs, directories and chunks,  *)
(* and for any faults.                                                     *)
(***************************************************************************)
EXTENDS Delivery, FiniteSetTheorems, TLAPS

-----------------------------------------------------------------------------
(* Types.  TypeOK needs TargetTaken to be inductive: the target a run adds *)
(* to delivered or failures is one only because the run is copying.        *)

\* The parts of the file names, and the inode numbers, are what they seem.
LEMMA Names2 ==
    /\ \A r \in Runs : Dest(r) \in Entry /\ Part(r) \in Entry
    /\ \A r \in Runs : Dest(r)[1] = FinalName[r] /\ Dest(r)[2] = None
    /\ \A r \in Runs : Part(r)[1] = FinalName[r] /\ Part(r)[2] = Pid[r] /\ Pid[r] # None
    /\ \A n \in Names : <<n, None>> \in Entry /\ <<n, None>>[1] = n /\ <<n, None>>[2] = None
    /\ None \notin Inodes
    /\ \A r \in Runs, d \in Dirs : <<r, d>> \in Inodes /\ <<r, d>>[1] = r /\ <<r, d>>[2] = d
  BY NamesAssumption, PidsAssumption, NoneAssumption DEF Dest, Part, Entry, Inodes

LEMMA TypeInit == Init => TypeOK /\ TargetTaken
  BY ChunksAssumption, NoneAssumption
  DEF Init, TypeOK, TargetTaken, Entry, Inodes, Contents, Empty, Chunk, Idle, Copying

LEMMA TypeStep == TypeOK /\ TargetTaken /\ [Next]_vars => TypeOK' /\ TargetTaken'
  <1> SUFFICES ASSUME TypeOK, TargetTaken, [Next]_vars PROVE TypeOK' /\ TargetTaken'
    OBVIOUS
  <1> USE DEF TypeOK, TargetTaken, fsVars, runVars, diskVars, Goto,
              Idle, Live, Deciding, Copying, Ended
  <1> DEFINE Types == TypeOK' /\ TargetTaken'
  <1>1. ASSUME NEW r \in Runs, Begin(r) PROVE Types
    BY <1>1 DEF Begin
  <1>2. ASSUME NEW r \in Runs, PreCheck(r) PROVE Types
    BY <1>2 DEF PreCheck
  <1>3. ASSUME NEW r \in Runs, Work(r) \/ WorkFails(r) PROVE Types
    BY <1>3 DEF Work, WorkFails
  <1>4. ASSUME NEW r \in Runs, Recheck(r) PROVE Types
    <2>1. PICK seen \in Seen(Collisions(r)) :
             IF seen = {}
             THEN /\ todo' = [todo EXCEPT ![r] = TargetsOf[r]]
                  /\ Goto(r, "loop")
                  /\ UNCHANGED failures
             ELSE /\ failures' = [failures EXCEPT ![r] = seen]
                  /\ Goto(r, "collided")
                  /\ UNCHANGED todo
      BY <1>4 DEF Recheck
    <2>2. seen \in SUBSET Dirs /\ TargetsOf[r] \in SUBSET Dirs
      BY TargetsAssumption DEF Seen, Collisions
    <2>3. UNCHANGED <<target, delivered, warned, fd, written, fsVars>>
      BY <1>4 DEF Recheck
    <2>4. CASE seen = {}
      BY <2>1, <2>2, <2>3, <2>4
    <2>5. CASE seen # {}
      BY <2>1, <2>2, <2>3, <2>5
    <2> QED
      BY <2>4, <2>5
  <1>5. ASSUME NEW r \in Runs, NextTarget(r) PROVE Types
    <2>1. PICK d \in todo[r] :
             /\ todo' = [todo EXCEPT ![r] = @ \ {d}]
             /\ \/ /\ failures' = [failures EXCEPT ![r] = @ \cup {d}]
                   /\ UNCHANGED <<pc, target>>
                \/ /\ target' = [target EXCEPT ![r] = d]
                   /\ Goto(r, "copy")
                   /\ UNCHANGED failures
      BY <1>5 DEF NextTarget, Skip
    <2>2. d \in Dirs
      OBVIOUS
    <2>3. pc[r] = "loop" /\ UNCHANGED <<delivered, warned, fd, written, fsVars>>
      BY <1>5 DEF NextTarget
    <2>4. CASE UNCHANGED <<pc, target>> /\ failures' = [failures EXCEPT ![r] = @ \cup {d}]
      BY <2>1, <2>2, <2>3, <2>4
    <2>5. CASE target' = [target EXCEPT ![r] = d] /\ Goto(r, "copy") /\ UNCHANGED failures
      BY <2>1, <2>2, <2>3, <2>5
    <2> QED
      BY <2>1, <2>4, <2>5
  <1>6. ASSUME NEW r \in Runs, OpenPart(r) PROVE Types
    <2> DEFINE d == target[r]
               i == IF dir[d][Part(r)] = None THEN <<r, d>> ELSE dir[d][Part(r)]
    <2>1. d \in Dirs /\ i \in Inodes
      BY <1>6, Names2 DEF OpenPart
    <2>2. Empty \in Contents
      BY DEF Empty, Contents
    <2>3. /\ dir' = [dir EXCEPT ![d][Part(r)] = i]
          /\ data' = [data EXCEPT ![i] = Empty]
          /\ fd' = [fd EXCEPT ![r] = i]
      BY <1>6 DEF OpenPart
    <2> HIDE DEF i
    <2>4. dir' \in [Dirs -> [Entry -> Inodes \cup {None}]]
      BY <2>1, <2>3
    <2>5. data' \in [Inodes -> Contents] /\ fd' \in [Runs -> Inodes \cup {None}]
      BY <2>1, <2>2, <2>3
    <2> QED
      BY <1>6, <2>4, <2>5, ChunksAssumption DEF OpenPart
  <1>7. ASSUME NEW r \in Runs, WriteChunk(r) PROVE Types
    <2>1. written[r] + 1 \in Chunk /\ written' \in [Runs -> 0..Chunks]
      BY <1>7, ChunksAssumption DEF WriteChunk, MoreToWrite, Chunk
    <2>2. data' \in [Inodes -> Contents]
      BY <1>7, <2>1 DEF WriteChunk, Contents
    <2> QED
      BY <1>7, <2>1, <2>2 DEF WriteChunk
  <1>8. ASSUME NEW r \in Runs, CloseCopy(r) PROVE Types
    BY <1>8 DEF CloseCopy
  <1>9. ASSUME NEW r \in Runs, Fsync(r) PROVE Types
    <2>1. dir[target[r]][Part(r)] \in Inodes
      BY <1>9, Names2 DEF Fsync
    <2> QED
      BY <1>9, <2>1 DEF Fsync, Flush
  <1>10. ASSUME NEW r \in Runs, Rename(r) PROVE Types
    <2>1. target[r] \in Dirs /\ dir[target[r]][Part(r)] \in Inodes
      BY <1>10, Names2 DEF Rename
    <2> QED
      BY <1>10, <2>1 DEF Rename
  <1>11. ASSUME NEW r \in Runs, SyncDir(r) \/ SyncDirFails(r) PROVE Types
    <2>1. pc[r] = "syncdir" /\ target[r] \in Dirs
      BY <1>11 DEF SyncDir, SyncDirFails, Deliver
    <2>2. CASE SyncDir(r)
      BY <2>1, <2>2 DEF SyncDir, Deliver, FlushDir
    <2>3. CASE SyncDirFails(r)
      BY <2>1, <2>3 DEF SyncDirFails, Deliver
    <2> QED
      BY <1>11, <2>2, <2>3
  <1>12. ASSUME NEW r \in Runs, IOError(r) \/ PartVanished(r) PROVE Types
    BY <1>12 DEF IOError, PartVanished
  <1>13. ASSUME NEW r \in Runs, UnlinkPart(r) PROVE Types
    <2>1. pc[r] = "unlink" /\ target[r] \in Dirs
      BY <1>13 DEF UnlinkPart
    <2>2. dir' \in [Dirs -> [Entry -> Inodes \cup {None}]]
      <3>1. CASE UNCHANGED dir
        BY <3>1
      <3>2. CASE dir' = [dir EXCEPT ![target[r]][Part(r)] = None]
        BY <2>1, <3>2
      <3> QED
        BY <1>13, <3>1, <3>2 DEF UnlinkPart, RemovePart
    <2>3. /\ failures' = [failures EXCEPT ![r] = @ \cup {target[r]}]
          /\ target' = [target EXCEPT ![r] = None]
          /\ pc' = [pc EXCEPT ![r] = "loop"]
          /\ UNCHANGED <<todo, delivered, warned, fd, written, data, diskVars>>
      BY <1>13 DEF UnlinkPart
    <2> QED
      BY <2>1, <2>2, <2>3
  <1>14. ASSUME NEW r \in Runs, Return(r) \/ Kill(r) PROVE Types
    BY <1>14 DEF Return, Kill
  <1>15. ASSUME PowerLoss PROVE Types
    BY <1>15 DEF PowerLoss
  <1>16. ASSUME NEW d \in Dirs, WritebackDir(d) PROVE Types
    BY <1>16 DEF WritebackDir
  <1>17. ASSUME NEW i \in Inodes, NEW c \in Chunk, WritebackChunk(i, c) PROVE Types
    BY <1>17 DEF WritebackChunk, Contents
  <1>18. CASE UNCHANGED vars
    BY <1>18 DEF vars
  <1> QED
    BY <1>1, <1>2, <1>3, <1>4, <1>5, <1>6, <1>7, <1>8, <1>9, <1>10, <1>11, <1>12, <1>13, <1>14,
       <1>15, <1>16, <1>17, <1>18 DEF Next, RunStep, Done

\* The type invariant of the runs, for every value of the constants.
THEOREM TypeCorrect == Spec => []TypeOK
  <1>1. Init => TypeOK /\ TargetTaken
    BY TypeInit
  <1>2. TypeOK /\ TargetTaken /\ [Next]_vars => TypeOK' /\ TargetTaken'
    BY TypeStep
  <1> QED
    BY <1>1, <1>2, PTL DEF Spec

-----------------------------------------------------------------------------
(* FinalsWhole.  IInv is its inductive strengthening: see the README for   *)
(* the argument.  FsInv is the part of it about directories and inodes.    *)

FsInv ==
    /\ Home(dir) /\ Home(dirDisk)
    /\ LinkedOnce(dir) /\ LinkedOnce(dirDisk)
    /\ FinalsSealed(dir) /\ FinalsSealed(dirDisk)
    /\ DiskFinalNoPart

\* A step of r leaves the other runs where they are.
LEMMA OwnStep ==
  ASSUME TypeOK, NEW r \in Runs, RunStep(r) \/ Kill(r)
  PROVE  /\ pc[r] \in Live
         /\ \A q \in Runs \ {r} :
               /\ pc'[q] = pc[q] /\ todo'[q] = todo[q] /\ target'[q] = target[q]
               /\ fd'[q] = fd[q] /\ written'[q] = written[q]
  <1> USE DEF TypeOK, fsVars, Goto, Live, Deciding, Copying
  <1>1. CASE PreCheck(r) \/ Work(r) \/ WorkFails(r)
    BY <1>1 DEF PreCheck, Work, WorkFails
  <1>2. CASE Recheck(r)
    BY <1>2 DEF Recheck
  <1>3. CASE NextTarget(r)
    BY <1>3 DEF NextTarget
  <1>4. CASE OpenPart(r) \/ WriteChunk(r) \/ CloseCopy(r)
    BY <1>4 DEF OpenPart, WriteChunk, CloseCopy
  <1>5. CASE Fsync(r) \/ Rename(r)
    BY <1>5 DEF Fsync, Rename
  <1>6. CASE SyncDir(r) \/ SyncDirFails(r)
    BY <1>6 DEF SyncDir, SyncDirFails, Deliver
  <1>7. CASE IOError(r) \/ PartVanished(r) \/ UnlinkPart(r)
    BY <1>7 DEF IOError, PartVanished, UnlinkPart
  <1>8. CASE Return(r) \/ Kill(r)
    BY <1>8 DEF Return, Kill
  <1> QED
    BY <1>1, <1>2, <1>3, <1>4, <1>5, <1>6, <1>7, <1>8 DEF RunStep

\* A run gets live only by beginning.
LEMMA LiveStep ==
  ASSUME TypeOK, [Next]_vars
  PROVE  \/ LiveRuns' \subseteq LiveRuns
         \/ \E r \in Runs : Begin(r) /\ LiveRuns' = LiveRuns \cup {r}
  <1> USE DEF LiveRuns
  <1>1. ASSUME NEW r \in Runs, Begin(r) PROVE LiveRuns' = LiveRuns \cup {r}
    BY <1>1 DEF Begin, Goto, TypeOK, Live, Deciding
  <1>2. ASSUME NEW r \in Runs, RunStep(r) \/ Kill(r) PROVE LiveRuns' \subseteq LiveRuns
    BY <1>2, OwnStep
  <1>3. CASE PowerLoss
    BY <1>3 DEF PowerLoss, TypeOK, Live, Deciding, Copying
  <1>4. ASSUME pc' = pc PROVE LiveRuns' \subseteq LiveRuns
    BY <1>4
  <1> QED
    BY <1>1, <1>2, <1>3, <1>4 DEF Next, Done, WritebackDir, WritebackChunk, vars, runVars

\* With one run at a time, or with file names of their own, a run that begins
\* finds no live run of its name.
LEMMA BeginsAlone ==
  ASSUME TypeOK, IsFiniteSet(LiveRuns), NoRivals, NEW r \in Runs, Begin(r)
  PROVE  \A q \in LiveRuns : q # r => FinalName[q] # FinalName[r]
  <1>1. CASE MaxLive <= 1
    <2>1. Cardinality(LiveRuns) \in Nat /\ Cardinality(LiveRuns) < MaxLive
      BY FS_CardinalityType DEF Begin
    <2>2. Cardinality(LiveRuns) = 0
      BY <1>1, <2>1, MaxLiveAssumption
    <2> QED
      BY <2>2, FS_EmptySet
  <1>2. CASE OwnNames
    BY <1>2 DEF OwnNames, LiveRuns
  <1> QED
    BY <1>1, <1>2 DEF NoRivals

\* Live runs keep parts of their own: their process ids differ, or their names.
PartsApart == ~SharedPids \/ NoRivals

LEMMA LivePartsStep ==
  ASSUME TypeOK, IsFiniteSet(LiveRuns), LiveParts, PartsApart, [Next]_vars
  PROVE  IsFiniteSet(LiveRuns') /\ LiveParts'
  <1> USE DEF LiveParts
  <1>1. CASE LiveRuns' \subseteq LiveRuns
    <2>1. IsFiniteSet(LiveRuns')
      BY <1>1, FS_Subset
    <2> QED
      BY <1>1, <2>1 DEF Part
  <1>2. ASSUME NEW r \in Runs, Begin(r), LiveRuns' = LiveRuns \cup {r}
        PROVE  IsFiniteSet(LiveRuns') /\ LiveParts'
    <2>1. IsFiniteSet(LiveRuns')
      BY <1>2, FS_AddElement
    <2>2. \A q \in LiveRuns : q # r => Part(q) # Part(r)
      <3>1. CASE ~SharedPids
        BY <1>2, <3>1 DEF Begin, Part
      <3>2. CASE NoRivals
        BY <1>2, <3>2, BeginsAlone DEF Part
      <3> QED
        BY <3>1, <3>2 DEF PartsApart
    <2> QED
      BY <1>2, <2>1, <2>2 DEF Part
  <1> QED
    BY <1>1, <1>2, LiveStep

\* An inode that is still to be created was still to be created before.
LEMMA UnbornRunStep ==
  ASSUME TypeOK, NEW r \in Runs, RunStep(r) \/ Kill(r), NEW d \in Dirs, Unborn(r, d)'
  PROVE  Unborn(r, d)
  <1> USE DEF TypeOK, fsVars, Goto, Unborn, Idle, Live, Deciding, Copying
  <1>1. CASE PreCheck(r) \/ Work(r) \/ WorkFails(r)
    BY <1>1 DEF PreCheck, Work, WorkFails
  <1>2. CASE Recheck(r)
    BY <1>2 DEF Recheck
  <1>3. CASE NextTarget(r)
    BY <1>3 DEF NextTarget
  <1>4. CASE OpenPart(r) \/ WriteChunk(r) \/ CloseCopy(r)
    BY <1>4 DEF OpenPart, WriteChunk, CloseCopy
  <1>5. CASE Fsync(r) \/ Rename(r)
    BY <1>5 DEF Fsync, Rename
  <1>6. CASE SyncDir(r) \/ SyncDirFails(r)
    BY <1>6 DEF SyncDir, SyncDirFails, Deliver
  <1>7. CASE IOError(r) \/ PartVanished(r) \/ UnlinkPart(r)
    BY <1>7 DEF IOError, PartVanished, UnlinkPart
  <1>8. CASE Return(r) \/ Kill(r)
    BY <1>8 DEF Return, Kill
  <1> QED
    BY <1>1, <1>2, <1>3, <1>4, <1>5, <1>6, <1>7, <1>8 DEF RunStep

LEMMA UnbornStep ==
  ASSUME TypeOK, [Next]_vars
  PROVE  \A r \in Runs, d \in Dirs : Unborn(r, d)' => Unborn(r, d)
  <1> SUFFICES ASSUME NEW q \in Runs, NEW d \in Dirs, Unborn(q, d)' PROVE Unborn(q, d)
    OBVIOUS
  <1>1. ASSUME NEW r \in Runs, Begin(r) PROVE Unborn(q, d)
    BY <1>1 DEF Begin, Goto, Unborn, TypeOK, Idle
  <1>2. ASSUME NEW r \in Runs, RunStep(r) \/ Kill(r) PROVE Unborn(q, d)
    <2>1. CASE q = r
      BY <1>2, <2>1, UnbornRunStep
    <2>2. CASE q # r
      BY <1>2, <2>2, OwnStep DEF Unborn
    <2> QED
      BY <2>1, <2>2
  <1>3. CASE PowerLoss
    BY <1>3 DEF PowerLoss, Unborn, TypeOK, Idle
  <1>4. CASE runVars' = runVars
    BY <1>4 DEF runVars, Unborn
  <1> QED
    BY <1>1, <1>2, <1>3, <1>4 DEF Next, Done, WritebackDir, WritebackChunk, vars

\* Two runs that are copying use different parts.
LEMMA PartsDiffer ==
  ASSUME LiveParts, NEW r \in Runs, NEW q \in Runs, q # r, pc[r] \in Live, pc[q] \in Live
  PROVE  Part(q) # Part(r) /\ Part(q) # Dest(r)
  BY Names2 DEF LiveParts, LiveRuns

\* What is known of the inode a run opens, whether it creates it or finds it:
\* nothing but the run's part leads to it, in memory, and no final name on disk.
Exclusive(i, r) ==
    /\ i \in Inodes /\ i[2] = target[r] /\ FinalName[i[1]] = FinalName[r]
    /\ \A d \in Dirs, e \in Entry : dir[d][e] = i => d = target[r] /\ e = Part(r)
    /\ \A d \in Dirs, n \in Names : dirDisk[d][<<n, None>>] # i

LEMMA PartExclusive ==
  ASSUME IInv, NEW r \in Runs, pc[r] \in Copying, dir[target[r]][Part(r)] # None
  PROVE  Exclusive(dir[target[r]][Part(r)], r)
  <1> DEFINE i == dir[target[r]][Part(r)]
  <1>1. target[r] \in Dirs /\ Part(r) \in Entry /\ i \in Inodes
    BY Names2 DEF IInv, TypeOK, TargetTaken
  <1>2. i[2] = target[r] /\ FinalName[i[1]] = FinalName[r]
    BY <1>1, Names2 DEF IInv, Home
  <1>3. ASSUME NEW d \in Dirs, NEW e \in Entry, dir[d][e] = i
        PROVE  d = target[r] /\ e = Part(r)
    BY <1>1, <1>2, <1>3 DEF IInv, Home, LinkedOnce
  <1>4. ASSUME NEW d \in Dirs, NEW n \in Names, dirDisk[d][<<n, None>>] = i PROVE FALSE
    <2>1. d = target[r]
      BY <1>1, <1>2, <1>4, Names2 DEF IInv, Home
    <2> QED
      BY <1>1, <1>4, <2>1, Names2 DEF IInv, DiskFinalNoPart
  <1> QED
    BY <1>1, <1>2, <1>3, <1>4 DEF Exclusive

LEMMA NewExclusive ==
  ASSUME IInv, NEW r \in Runs, pc[r] = "copy"
  PROVE  Exclusive(<<r, target[r]>>, r)
  <1> DEFINE i == <<r, target[r]>>
  <1>1. target[r] \in Dirs /\ Part(r) \in Entry
    BY Names2 DEF IInv, TargetTaken, Copying
  <1>2. i \in Inodes /\ i[1] = r /\ i[2] = target[r]
    BY <1>1, Names2
  <1>3. Unborn(r, target[r])
    BY DEF Unborn
  <1>4. \A d \in Dirs, e \in Entry : dir[d][e] # i /\ dirDisk[d][e] # i
    BY <1>1, <1>2, <1>3, Names2 DEF IInv, Home, Fresh
  <1> QED
    BY <1>1, <1>2, <1>4, Names2 DEF Exclusive

\* The other runs that are copying have parts, and inodes, of their own.
LEMMA OthersApart ==
  ASSUME IInv, NEW r \in Runs, pc[r] \in Copying, NEW i, Exclusive(i, r),
         NEW q \in Runs, q # r, pc[q] \in {"write", "fsync", "rename"}
  PROVE  /\ target[q] \in Dirs /\ Part(q) \in Entry
         /\ dir[target[q]][Part(q)] \in Inodes
         /\ dir[target[q]][Part(q)] # i
         /\ Part(q) # Part(r) /\ Part(q) # Dest(r)
  <1>1. target[q] \in Dirs /\ Part(q) \in Entry
    BY Names2 DEF IInv, TargetTaken, Copying
  <1>2. Part(q) # Part(r) /\ Part(q) # Dest(r)
    BY PartsDiffer DEF IInv, Live, Copying
  <1>3. dir[target[q]][Part(q)] \in Inodes
    BY <1>1 DEF IInv, TypeOK, CopyProgress, CopyState
  <1> QED
    BY <1>1, <1>2, <1>3 DEF Exclusive

\* Steps that touch neither directories nor contents.
LEMMA QuietFs ==
  ASSUME IInv, UNCHANGED fsVars, [Next]_vars
  PROVE  FsInv' /\ Fresh(dir)' /\ Fresh(dirDisk)'
  <1>1. UNCHANGED <<dir, data, dirDisk, diskData>>
    BY DEF fsVars
  <1>2. \A r \in Runs, d \in Dirs : Unborn(r, d)' => Unborn(r, d)
    BY UnbornStep DEF IInv
  <1>3. Fresh(dir)' /\ Fresh(dirDisk)'
    BY <1>1, <1>2 DEF IInv, Fresh
  <1>4. FsInv'
    BY <1>1 DEF IInv, FsInv, Home, LinkedOnce, FinalsSealed, Sealed, DiskFinalNoPart
  <1> QED
    BY <1>3, <1>4

\* A run that a step leaves alone keeps its progress when its own part does.
LEMMA CopyKept ==
  ASSUME NEW q \in Runs, CopyState(q),
         pc'[q] = pc[q], fd'[q] = fd[q], written'[q] = written[q], target'[q] = target[q],
         pc[q] \in {"write", "fsync", "rename"} =>
            /\ dir'[target[q]][Part(q)] = dir[target[q]][Part(q)]
            /\ data'[dir[target[q]][Part(q)]] = data[dir[target[q]][Part(q)]]
            /\ \/ diskData'[dir[target[q]][Part(q)]] = diskData[dir[target[q]][Part(q)]]
               \/ diskData'[dir[target[q]][Part(q)]] = data[dir[target[q]][Part(q)]]
  PROVE  CopyState(q)'
  BY DEF CopyState, Artifact

\* Opening the part empties one inode, which nothing final leads to.
LEMMA OpenPartStep ==
  ASSUME IInv, TypeOK', TargetTaken', NEW r \in Runs, OpenPart(r), [Next]_vars
  PROVE  FsInv' /\ Fresh(dir)' /\ Fresh(dirDisk)' /\ CopyProgress'
  <1> DEFINE d0 == target[r]
             i == IF dir[d0][Part(r)] = None THEN <<r, d0>> ELSE dir[d0][Part(r)]
  <1>1. /\ pc[r] = "copy" /\ pc[r] \in Copying
        /\ pc' = [pc EXCEPT ![r] = "write"] /\ fd' = [fd EXCEPT ![r] = i]
        /\ written' = [written EXCEPT ![r] = 0]
        /\ dir' = [dir EXCEPT ![d0][Part(r)] = i] /\ data' = [data EXCEPT ![i] = Empty]
        /\ UNCHANGED <<todo, target, dirDisk, diskData>>
    BY DEF OpenPart, Goto, diskVars, Copying
  <1>2. Exclusive(i, r)
    BY <1>1, PartExclusive, NewExclusive
  <1>3. ASSUME NEW q \in Runs, NEW d \in Dirs, d = d0, Unborn(q, d)' PROVE i # <<q, d>>
    <2>1. q # r
      BY <1>1, <1>3 DEF IInv, TypeOK, TargetTaken, Unborn, Copying, Idle
    <2>2. Unborn(q, d)
      BY <1>3, UnbornStep DEF IInv
    <2>3. CASE dir[d][Part(r)] = None
      BY <1>3, <2>1, <2>3, Names2
    <2>4. CASE dir[d][Part(r)] # None
      BY <1>3, <2>2, <2>4, Names2 DEF IInv, Fresh
    <2> QED
      BY <2>3, <2>4
  <1> HIDE DEF i
  <1>4. i \in Inodes /\ d0 \in Dirs /\ Part(r) \in Entry
    BY <1>1, <1>2, Names2 DEF Exclusive, IInv, TargetTaken
  <1>5. \A d \in Dirs, e \in Entry :
           dir'[d][e] = IF d = d0 /\ e = Part(r) THEN i ELSE dir[d][e]
    BY <1>1, <1>4 DEF IInv, TypeOK
  <1>6. \A j \in Inodes : j # i => data'[j] = data[j]
    BY <1>1, <1>4 DEF IInv, TypeOK
  <1>7. Home(dir)' /\ Home(dirDisk)'
    BY <1>1, <1>2, <1>4, <1>5, Names2 DEF IInv, Home, Exclusive
  <1>8. LinkedOnce(dir)' /\ LinkedOnce(dirDisk)'
    BY <1>1, <1>2, <1>4, <1>5 DEF IInv, LinkedOnce, Exclusive
  <1>9. FinalsSealed(dir)'
    <2> SUFFICES ASSUME NEW d \in Dirs, NEW n \in Names, dir'[d][<<n, None>>] # None
                 PROVE  Sealed(dir[d][<<n, None>>], n)'
      BY DEF FinalsSealed
    <2>1. <<n, None>> \in Entry /\ <<n, None>> # Part(r)
      BY Names2
    <2>2. dir'[d][<<n, None>>] = dir[d][<<n, None>>] /\ dir[d][<<n, None>>] \in Inodes
      <3>1. dir \in [Dirs -> [Entry -> Inodes \cup {None}]]
        BY DEF IInv, TypeOK
      <3> QED
        BY <1>5, <2>1, <3>1
    <2>3. dir[d][<<n, None>>] # i
      BY <1>2, <2>1 DEF Exclusive
    <2>4. Sealed(dir[d][<<n, None>>], n)
      BY <2>2 DEF IInv, FinalsSealed
    <2> QED
      BY <1>1, <1>6, <2>2, <2>3, <2>4 DEF Sealed, Artifact
  <1>10. FinalsSealed(dirDisk)'
    <2> SUFFICES ASSUME NEW d \in Dirs, NEW n \in Names, dirDisk'[d][<<n, None>>] # None
                 PROVE  Sealed(dirDisk[d][<<n, None>>], n)'
      BY DEF FinalsSealed
    <2>1. dirDisk[d][<<n, None>>] \in Inodes /\ dirDisk[d][<<n, None>>] # i
      BY <1>1, <1>2, Names2 DEF IInv, TypeOK, Exclusive
    <2>2. Sealed(dirDisk[d][<<n, None>>], n)
      BY <1>1 DEF IInv, FinalsSealed
    <2> QED
      BY <1>1, <1>6, <2>1, <2>2 DEF Sealed, Artifact
  <1>11. DiskFinalNoPart'
    BY <1>1, <1>2, <1>4, <1>5, Names2 DEF IInv, DiskFinalNoPart, Exclusive
  <1>12. Fresh(dir)'
    <2> SUFFICES ASSUME NEW q \in Runs, NEW d \in Dirs, NEW e \in Entry, Unborn(q, d)'
                 PROVE  dir'[d][e] # <<q, d>>
      BY DEF Fresh
    <2>1. Unborn(q, d)
      BY UnbornStep DEF IInv
    <2>2. dir[d][e] # <<q, d>>
      BY <2>1 DEF IInv, Fresh
    <2>3. CASE d = d0 /\ e = Part(r)
      BY <1>3, <1>5, <2>3
    <2>4. CASE ~(d = d0 /\ e = Part(r))
      BY <1>5, <2>2, <2>4
    <2> QED
      BY <2>3, <2>4
  <1>13. Fresh(dirDisk)'
    BY <1>1, UnbornStep DEF IInv, Fresh
  <1>14. CopyProgress'
    <2> SUFFICES ASSUME NEW q \in Runs PROVE CopyState(q)'
      BY DEF CopyProgress
    <2>1. CASE q = r
      <3>1. pc'[q] = "write" /\ fd'[q] = i /\ written'[q] = 0
        BY <1>1, <2>1 DEF IInv, TypeOK
      <3>2. dir'[target'[q]][Part(q)] = i
        BY <1>1, <1>4, <1>5, <2>1
      <3> QED
        BY <1>4, <3>1, <3>2, Names2 DEF CopyState
    <2>2. CASE q # r
      <3>1. pc'[q] = pc[q] /\ fd'[q] = fd[q] /\ written'[q] = written[q] /\ target'[q] = target[q]
        BY <1>1, <2>2 DEF IInv, TypeOK
      <3>2. ASSUME pc[q] \in {"write", "fsync", "rename"}
            PROVE  /\ dir'[target[q]][Part(q)] = dir[target[q]][Part(q)]
                   /\ data'[dir[target[q]][Part(q)]] = data[dir[target[q]][Part(q)]]
        BY <1>1, <1>2, <1>5, <1>6, <2>2, <3>2, OthersApart
      <3>3. CopyState(q)
        BY DEF IInv, CopyProgress
      <3> QED
        BY <1>1, <3>1, <3>2, <3>3, CopyKept
    <2> QED
      BY <2>1, <2>2
  <1> QED
    BY <1>7, <1>8, <1>9, <1>10, <1>11, <1>12, <1>13, <1>14 DEF FsInv

\* A sealed inode stays sealed when nobody changes its content.
LEMMA SealKept ==
  ASSUME NEW i \in Inodes, NEW n \in Names, Sealed(i, n),
         data'[i] = data[i], diskData'[i] = diskData[i] \/ diskData'[i] = data[i]
  PROVE  Sealed(i, n)'
  BY DEF Sealed, Artifact

\* The directories stay as they are and sealed inodes keep their contents.
LEMMA ContentsFs ==
  ASSUME IInv, [Next]_vars, UNCHANGED <<dir, dirDisk>>,
         \A d \in Dirs, n \in Names :
            /\ dir[d][<<n, None>>] # None => Sealed(dir[d][<<n, None>>], n)'
            /\ dirDisk[d][<<n, None>>] # None => Sealed(dirDisk[d][<<n, None>>], n)'
  PROVE  FsInv' /\ Fresh(dir)' /\ Fresh(dirDisk)'
  <1>1. Fresh(dir)' /\ Fresh(dirDisk)'
    BY UnbornStep DEF IInv, Fresh
  <1>2. Home(dir)' /\ Home(dirDisk)' /\ LinkedOnce(dir)' /\ LinkedOnce(dirDisk)' /\ DiskFinalNoPart'
    BY DEF IInv, Home, LinkedOnce, DiskFinalNoPart
  <1>3. FinalsSealed(dir)' /\ FinalsSealed(dirDisk)'
    BY DEF FinalsSealed
  <1> QED
    BY <1>1, <1>2, <1>3 DEF FsInv

\* A write goes to the writer's own part.
LEMMA WriteChunkStep ==
  ASSUME IInv, NEW r \in Runs, WriteChunk(r), [Next]_vars
  PROVE  FsInv' /\ Fresh(dir)' /\ Fresh(dirDisk)' /\ CopyProgress'
  <1> DEFINE i == fd[r]
             k == written[r] + 1
  <1>1. /\ pc[r] = "write" /\ pc[r] \in Copying /\ written[r] < Chunks
        /\ data' = [data EXCEPT ![i][k] = r] /\ written' = [written EXCEPT ![r] = @ + 1]
        /\ UNCHANGED <<pc, target, fd, dir, dirDisk, diskData>>
    BY DEF WriteChunk, MoreToWrite, diskVars, Copying
  <1>2. i = dir[target[r]][Part(r)] /\ i # None
    BY <1>1 DEF IInv, CopyProgress, CopyState
  <1>3. Exclusive(i, r)
    BY <1>1, <1>2, PartExclusive
  <1>4. i \in Inodes /\ k \in Chunk
    BY <1>1, <1>3, ChunksAssumption DEF Exclusive, IInv, TypeOK, Chunk
  <1>5. \A j \in Inodes : j # i => data'[j] = data[j]
    BY <1>1, <1>4 DEF IInv, TypeOK
  <1>6. ASSUME NEW d \in Dirs, NEW n \in Names
        PROVE  /\ dir[d][<<n, None>>] # None => Sealed(dir[d][<<n, None>>], n)'
               /\ dirDisk[d][<<n, None>>] # None => Sealed(dirDisk[d][<<n, None>>], n)'
    <2>1. dir[d][<<n, None>>] # i /\ dirDisk[d][<<n, None>>] # i
      BY <1>3, Names2 DEF Exclusive
    <2>2. dir[d][<<n, None>>] \in Inodes \cup {None} /\ dirDisk[d][<<n, None>>] \in Inodes \cup {None}
      BY Names2 DEF IInv, TypeOK
    <2> QED
      BY <1>1, <1>5, <2>1, <2>2, SealKept DEF IInv, FinalsSealed
  <1>7. FsInv' /\ Fresh(dir)' /\ Fresh(dirDisk)'
    BY <1>1, <1>6, ContentsFs
  <1>8. ASSUME NEW q \in Runs PROVE CopyState(q)'
    <2>1. CASE q = r
      <3>1. \A c \in 1..written[r] : data[i][c] = r
        BY <1>1 DEF IInv, CopyProgress, CopyState
      <3>2. data'[i] = [data[i] EXCEPT ![k] = r]
        BY <1>1, <1>4 DEF IInv, TypeOK
      <3>3. data[i] \in [Chunk -> Runs \cup {None}] /\ written[r] \in 0..Chunks
        BY <1>4 DEF IInv, TypeOK, Contents
      <3>4. \A c \in 1..k : data'[i][c] = r
        BY <1>4, <3>1, <3>2, <3>3, ChunksAssumption DEF Chunk
      <3>5. written'[r] = k
        BY <1>1 DEF IInv, TypeOK
      <3> QED
        BY <1>1, <1>2, <2>1, <3>4, <3>5 DEF CopyState
    <2>2. CASE q # r
      <3>1. written'[q] = written[q]
        BY <1>1, <2>2 DEF IInv, TypeOK
      <3>2. pc[q] \in {"write", "fsync", "rename"} =>
               data'[dir[target[q]][Part(q)]] = data[dir[target[q]][Part(q)]]
        BY <1>1, <1>3, <1>5, <2>2, OthersApart
      <3>3. CopyState(q)
        BY DEF IInv, CopyProgress
      <3> QED
        BY <1>1, <3>1, <3>2, <3>3, CopyKept
    <2> QED
      BY <2>1, <2>2
  <1> QED
    BY <1>7, <1>8 DEF CopyProgress

\* The copy is complete when its file is closed.
LEMMA CloseCopyStep ==
  ASSUME IInv, NEW r \in Runs, CloseCopy(r)
  PROVE  CopyProgress'
  <1>1. /\ pc[r] = "write" /\ ~(written[r] < Chunks)
        /\ fd' = [fd EXCEPT ![r] = None] /\ pc' = [pc EXCEPT ![r] = "fsync"]
        /\ UNCHANGED <<target, written, dir, data, diskData>>
    BY DEF CloseCopy, MoreToWrite, Goto, fsVars
  <1>2. CopyState(r) /\ dir[target[r]][Part(r)] \in Inodes
    BY <1>1, Names2 DEF IInv, TypeOK, TargetTaken, Copying, CopyProgress, CopyState
  <1>3. written[r] = Chunks
    <2>1. written[r] \in 0..Chunks
      BY DEF IInv, TypeOK
    <2> QED
      BY <1>1, <2>1, ChunksAssumption
  <1>4. data[dir[target[r]][Part(r)]] = Artifact(r)
    <2>1. \A c \in Chunk : data[dir[target[r]][Part(r)]][c] = r
      BY <1>1, <1>2, <1>3 DEF CopyState, Chunk
    <2>2. data[dir[target[r]][Part(r)]] \in Contents
      BY <1>2 DEF IInv, TypeOK
    <2> QED
      BY <2>1, <2>2 DEF Contents, Artifact
  <1>5. CopyState(r)'
    BY <1>1, <1>2, <1>4 DEF CopyState, IInv, TypeOK, Artifact
  <1>6. ASSUME NEW q \in Runs, q # r PROVE CopyState(q)'
    <2>1. pc'[q] = pc[q] /\ fd'[q] = fd[q] /\ CopyState(q)
      BY <1>1, <1>6 DEF IInv, TypeOK, CopyProgress
    <2> QED
      BY <1>1, <2>1, CopyKept
  <1> QED
    BY <1>5, <1>6 DEF CopyProgress

\* fsync makes the part's content durable; a sealed inode had it durable.
LEMMA FsyncStep ==
  ASSUME IInv, NEW r \in Runs, Fsync(r), [Next]_vars
  PROVE  FsInv' /\ Fresh(dir)' /\ Fresh(dirDisk)' /\ CopyProgress'
  <1> DEFINE i == dir[target[r]][Part(r)]
  <1>1. /\ pc[r] = "fsync" /\ i # None /\ diskData' = [diskData EXCEPT ![i] = data[i]]
        /\ pc' = [pc EXCEPT ![r] = "rename"]
        /\ UNCHANGED <<target, fd, written, dir, data, dirDisk>>
    BY DEF Fsync, Flush, Goto
  <1>2. \A j \in Inodes : diskData'[j] = diskData[j] \/ diskData'[j] = data[j]
    BY <1>1 DEF IInv, TypeOK
  <1>3. ASSUME NEW d \in Dirs, NEW n \in Names
        PROVE  /\ dir[d][<<n, None>>] # None => Sealed(dir[d][<<n, None>>], n)'
               /\ dirDisk[d][<<n, None>>] # None => Sealed(dirDisk[d][<<n, None>>], n)'
    <2>1. dir[d][<<n, None>>] \in Inodes \cup {None} /\ dirDisk[d][<<n, None>>] \in Inodes \cup {None}
      BY Names2 DEF IInv, TypeOK
    <2> QED
      BY <1>1, <1>2, <2>1, SealKept DEF IInv, FinalsSealed
  <1>4. FsInv' /\ Fresh(dir)' /\ Fresh(dirDisk)'
    BY <1>1, <1>3, ContentsFs
  <1>5. i \in Inodes
    BY <1>1, Names2 DEF IInv, TypeOK, TargetTaken, Copying
  <1>6. CopyState(r)'
    <2>1. CopyState(r) /\ diskData'[i] = data[i] /\ pc'[r] = "rename"
      BY <1>1, <1>5 DEF IInv, TypeOK, CopyProgress
    <2> QED
      BY <1>1, <2>1 DEF CopyState, Artifact
  <1>7. ASSUME NEW q \in Runs, q # r PROVE CopyState(q)'
    <2>1. pc'[q] = pc[q] /\ CopyState(q)
      BY <1>1, <1>7 DEF IInv, TypeOK, CopyProgress
    <2>2. pc[q] \in {"write", "fsync", "rename"} => dir[target[q]][Part(q)] \in Inodes
      BY <2>1, Names2 DEF IInv, TypeOK, TargetTaken, Copying, CopyState
    <2> QED
      BY <1>1, <1>2, <2>1, <2>2, CopyKept
  <1> QED
    BY <1>4, <1>6, <1>7 DEF CopyProgress

\* The rename moves a sealed inode from the part's name to the final one.
LEMMA RenameStep ==
  ASSUME IInv, NEW r \in Runs, Rename(r), [Next]_vars
  PROVE  FsInv' /\ Fresh(dir)' /\ Fresh(dirDisk)' /\ CopyProgress'
  <1> DEFINE d0 == target[r]
             i == dir[d0][Part(r)]
  <1>1. /\ pc[r] = "rename" /\ pc[r] \in Copying /\ i # None
        /\ dir' = [dir EXCEPT ![d0][Dest(r)] = i, ![d0][Part(r)] = None]
        /\ pc' = [pc EXCEPT ![r] = "syncdir"]
        /\ UNCHANGED <<target, fd, written, data, dirDisk, diskData>>
    BY DEF Rename, Goto, diskVars, Copying
  <1>2. Exclusive(i, r)
    BY <1>1, PartExclusive
  <1>3. Sealed(i, FinalName[r]) /\ CopyState(r)
    BY <1>1 DEF IInv, CopyProgress, CopyState, Sealed
  <1> HIDE DEF i
  <1>4. i \in Inodes /\ d0 \in Dirs /\ Part(r) \in Entry /\ Dest(r) \in Entry /\ Part(r) # Dest(r)
    BY <1>1, <1>2, Names2 DEF Exclusive, IInv, TargetTaken
  <1>5. \A d \in Dirs, e \in Entry :
           dir'[d][e] = IF d = d0 /\ e = Dest(r) THEN i
                        ELSE IF d = d0 /\ e = Part(r) THEN None ELSE dir[d][e]
    BY <1>1, <1>4 DEF IInv, TypeOK
  <1>6. Home(dir)' /\ Home(dirDisk)'
    <2>1. i[2] = d0 /\ FinalName[i[1]] = FinalName[r]
      BY <1>2 DEF Exclusive
    <2>2. Dest(r)[1] = FinalName[r]
      BY Names2
    <2>3. ASSUME NEW d \in Dirs, NEW e \in Entry, dir'[d][e] # None
          PROVE  dir'[d][e][2] = d /\ FinalName[dir'[d][e][1]] = e[1]
      <3>1. CASE d = d0 /\ e = Dest(r)
        BY <1>5, <2>1, <2>2, <3>1
      <3>2. CASE ~(d = d0 /\ e = Dest(r))
        <4>1. dir'[d][e] = dir[d][e]
          BY <1>5, <2>3, <3>2
        <4> QED
          BY <2>3, <4>1 DEF IInv, Home
      <3> QED
        BY <3>1, <3>2
    <2>4. Home(dir)'
      BY <2>3 DEF Home
    <2>5. Home(dirDisk)
      BY DEF IInv
    <2>6. Home(dirDisk)'
      BY <1>1, <2>5 DEF Home
    <2> QED
      BY <2>4, <2>6
  <1>7. LinkedOnce(dir)' /\ LinkedOnce(dirDisk)'
    <2>1. ASSUME NEW d \in Dirs, NEW e \in Entry, NEW f \in Entry,
                 dir'[d][e] # None, dir'[d][e] = dir'[d][f]
          PROVE  e = f
      <3>1. \A g \in Entry : dir[d][g] = i => d = d0 /\ g = Part(r)
        BY <1>2 DEF Exclusive
      <3>2. dir[d][e] # None /\ dir[d][e] = dir[d][f] => e = f
        BY DEF IInv, LinkedOnce
      <3>3. CASE d = d0
        <4>1. dir'[d][e] = IF e = Dest(r) THEN i ELSE IF e = Part(r) THEN None ELSE dir[d][e]
          BY <1>5, <3>3
        <4>2. dir'[d][f] = IF f = Dest(r) THEN i ELSE IF f = Part(r) THEN None ELSE dir[d][f]
          BY <1>5, <3>3
        <4> QED
          BY <1>1, <2>1, <3>1, <3>2, <4>1, <4>2
      <3>4. CASE d # d0
        BY <1>5, <2>1, <3>2, <3>4
      <3> QED
        BY <3>3, <3>4
    <2>2. LinkedOnce(dir)'
      BY <2>1 DEF LinkedOnce
    <2> QED
      BY <1>1, <2>2 DEF IInv, LinkedOnce
  <1>8. FinalsSealed(dirDisk)'
    BY <1>1 DEF IInv, FinalsSealed, Sealed, Artifact
  <1>9. FinalsSealed(dir)'
    <2> SUFFICES ASSUME NEW d \in Dirs, NEW n \in Names
                 PROVE  (dir[d][<<n, None>>] # None => Sealed(dir[d][<<n, None>>], n))'
      BY DEF FinalsSealed
    <2>1. <<n, None>> \in Entry /\ <<n, None>> # Part(r)
      BY Names2
    <2>2. CASE d = d0 /\ <<n, None>> = Dest(r)
      <3>1. n = FinalName[r] /\ dir'[d][<<n, None>>] = i
        BY <1>5, <2>1, <2>2, Names2
      <3> QED
        BY <1>1, <1>3, <3>1 DEF Sealed, Artifact
    <2>3. CASE ~(d = d0 /\ <<n, None>> = Dest(r))
      <3>1. dir'[d][<<n, None>>] = dir[d][<<n, None>>]
        BY <1>5, <2>1, <2>3
      <3>2. dir[d][<<n, None>>] # None => Sealed(dir[d][<<n, None>>], n)
        BY DEF IInv, FinalsSealed
      <3> QED
        BY <1>1, <3>1, <3>2 DEF Sealed, Artifact
    <2> QED
      BY <2>2, <2>3
  <1>10. DiskFinalNoPart'
    BY <1>1, <1>4, <1>5, Names2 DEF IInv, DiskFinalNoPart
  <1>11. Fresh(dir)' /\ Fresh(dirDisk)'
    <2>1. \A q \in Runs, d \in Dirs : Unborn(q, d)' => Unborn(q, d)
      BY UnbornStep DEF IInv
    <2>2. \A q \in Runs, d \in Dirs : Unborn(q, d) => i # <<q, d>>
      BY <1>2, <1>4, Names2 DEF IInv, Fresh, Exclusive, i
    <2> QED
      <3>1. Fresh(dirDisk)'
        BY <1>1, <2>1 DEF IInv, Fresh
      <3>2. ASSUME NEW q \in Runs, NEW d \in Dirs, NEW e \in Entry, Unborn(q, d)'
            PROVE  dir'[d][e] # <<q, d>>
        <4>1. dir'[d][e] \in {i, None, dir[d][e]}
          BY <1>5, <3>2
        <4>2. i # <<q, d>> /\ None # <<q, d>>
          BY <2>1, <2>2, <3>2, Names2
        <4>3. dir[d][e] # <<q, d>>
          BY <2>1, <3>2 DEF IInv, Fresh
        <4> QED
          BY <4>1, <4>2, <4>3
      <3> QED
        BY <3>1, <3>2 DEF Fresh
  <1>12. ASSUME NEW q \in Runs PROVE CopyState(q)'
    <2>1. CASE q = r
      <3>1. pc'[r] = "syncdir"
        BY <1>1 DEF IInv, TypeOK
      <3> QED
        BY <1>1, <1>3, <2>1, <3>1 DEF CopyState
    <2>2. CASE q # r
      <3>1. pc'[q] = pc[q] /\ CopyState(q)
        BY <1>1, <2>2 DEF IInv, TypeOK, CopyProgress
      <3>2. pc[q] \in {"write", "fsync", "rename"} =>
               dir'[target[q]][Part(q)] = dir[target[q]][Part(q)]
        <4>1. ASSUME pc[q] \in {"write", "fsync", "rename"}
              PROVE  /\ target[q] \in Dirs /\ Part(q) \in Entry
                     /\ Part(q) # Part(r) /\ Part(q) # Dest(r)
          BY <1>1, <1>2, <2>2, <4>1, OthersApart
        <4> QED
          BY <1>5, <4>1
      <3> QED
        BY <1>1, <3>1, <3>2, CopyKept
    <2> QED
      BY <2>1, <2>2
  <1> QED
    BY <1>6, <1>7, <1>8, <1>9, <1>10, <1>11, <1>12 DEF FsInv, CopyProgress

\* The error path unlinks the run's own part.
LEMMA UnlinkStep ==
  ASSUME IInv, NEW r \in Runs, UnlinkPart(r), [Next]_vars
  PROVE  FsInv' /\ Fresh(dir)' /\ Fresh(dirDisk)' /\ CopyProgress'
  <1>1. /\ pc[r] = "unlink" /\ pc' = [pc EXCEPT ![r] = "loop"]
        /\ dir' = [dir EXCEPT ![target[r]][Part(r)] = None] \/ dir' = dir
        /\ target' = [target EXCEPT ![r] = None]
        /\ UNCHANGED <<fd, written, data, dirDisk, diskData>>
    BY DEF UnlinkPart, RemovePart, Goto, diskVars
  <1>2. target[r] \in Dirs /\ Part(r) \in Entry
    BY <1>1, Names2 DEF IInv, TargetTaken, Copying
  <1>3. \A d \in Dirs, e \in Entry :
           /\ dir'[d][e] = dir[d][e] \/ dir'[d][e] = None
           /\ e # Part(r) => dir'[d][e] = dir[d][e]
    <2>1. CASE dir' = dir
      BY <2>1
    <2>2. CASE dir' = [dir EXCEPT ![target[r]][Part(r)] = None]
      BY <1>2, <2>2 DEF IInv, TypeOK
    <2> QED
      BY <1>1, <2>1, <2>2
  <1>4. Home(dir)' /\ Home(dirDisk)' /\ LinkedOnce(dir)' /\ LinkedOnce(dirDisk)'
    BY <1>1, <1>3 DEF IInv, Home, LinkedOnce
  <1>5. FinalsSealed(dir)' /\ FinalsSealed(dirDisk)'
    <2>1. \A d \in Dirs, n \in Names : dir'[d][<<n, None>>] = dir[d][<<n, None>>]
      BY <1>3, Names2
    <2> QED
      BY <1>1, <2>1 DEF IInv, FinalsSealed, Sealed, Artifact
  <1>6. DiskFinalNoPart'
    BY <1>1, <1>3 DEF IInv, DiskFinalNoPart
  <1>7. Fresh(dir)' /\ Fresh(dirDisk)'
    <2>1. \A q \in Runs, d \in Dirs : Unborn(q, d)' => Unborn(q, d)
      BY UnbornStep DEF IInv
    <2>2. \A q \in Runs, d \in Dirs : None # <<q, d>>
      BY Names2
    <2> QED
      <3>1. Fresh(dirDisk)'
        BY <1>1, <2>1 DEF IInv, Fresh
      <3>2. ASSUME NEW q \in Runs, NEW d \in Dirs, NEW e \in Entry, Unborn(q, d)'
            PROVE  dir'[d][e] # <<q, d>>
        <4>1. dir[d][e] # <<q, d>>
          BY <2>1, <3>2 DEF IInv, Fresh
        <4> QED
          BY <1>3, <2>2, <4>1
      <3> QED
        BY <3>1, <3>2 DEF Fresh
  <1>8. ASSUME NEW q \in Runs PROVE CopyState(q)'
    <2>1. CASE q = r
      <3>1. pc'[r] = "loop" /\ CopyState(r)
        BY <1>1 DEF IInv, TypeOK, CopyProgress
      <3> QED
        BY <1>1, <2>1, <3>1 DEF CopyState
    <2>2. CASE q # r
      <3>1. pc'[q] = pc[q] /\ target'[q] = target[q] /\ CopyState(q)
        BY <1>1, <2>2 DEF IInv, TypeOK, CopyProgress
      <3>2. pc[q] \in {"write", "fsync", "rename"} =>
               target[q] \in Dirs /\ Part(q) \in Entry /\ Part(q) # Part(r)
        BY <1>1, <2>2, Names2, PartsDiffer DEF IInv, TargetTaken, Copying, Live
      <3> QED
        BY <1>1, <1>3, <3>1, <3>2, CopyKept
    <2> QED
      BY <2>1, <2>2
  <1> QED
    BY <1>4, <1>5, <1>6, <1>7, <1>8 DEF FsInv, CopyProgress

\* A directory written to disk as it is in memory: fsync or writeback.
LEMMA FlushDirFs ==
  ASSUME IInv, [Next]_vars, NEW d0 \in Dirs, dirDisk' = [dirDisk EXCEPT ![d0] = dir[d0]],
         UNCHANGED <<dir, data, diskData>>
  PROVE  FsInv' /\ Fresh(dir)' /\ Fresh(dirDisk)'
  <1>1. \A d \in Dirs : dirDisk'[d] = IF d = d0 THEN dir[d0] ELSE dirDisk[d]
    BY DEF IInv, TypeOK
  <1>2. Home(dir)' /\ Home(dirDisk)'
    BY <1>1 DEF IInv, Home
  <1>3. LinkedOnce(dir)' /\ LinkedOnce(dirDisk)'
    BY <1>1 DEF IInv, LinkedOnce
  <1>4. FinalsSealed(dir)' /\ FinalsSealed(dirDisk)'
    BY <1>1 DEF IInv, FinalsSealed, Sealed, Artifact
  <1>5. DiskFinalNoPart'
    <2> SUFFICES ASSUME NEW d \in Dirs, NEW e \in Entry, NEW n \in Names,
                        dir[d][e] # None, dir[d][e] = dirDisk'[d][<<n, None>>]
                 PROVE  e[2] = None
      BY DEF DiskFinalNoPart
    <2>1. CASE d = d0
      <3>1. e = <<n, None>>
        BY <1>1, <2>1, Names2 DEF IInv, LinkedOnce
      <3> QED
        BY <3>1
    <2>2. CASE d # d0
      BY <1>1, <2>2 DEF IInv, DiskFinalNoPart
    <2> QED
      BY <2>1, <2>2
  <1>6. Fresh(dir)' /\ Fresh(dirDisk)'
    <2>1. \A q \in Runs, d \in Dirs : Unborn(q, d)' => Unborn(q, d)
      BY UnbornStep DEF IInv
    <2> QED
      BY <1>1, <2>1 DEF IInv, Fresh
  <1> QED
    BY <1>2, <1>3, <1>4, <1>5, <1>6 DEF FsInv

LEMMA SyncDirStep ==
  ASSUME IInv, NEW r \in Runs, SyncDir(r), [Next]_vars
  PROVE  FsInv' /\ Fresh(dir)' /\ Fresh(dirDisk)'
  <1>1. target[r] \in Dirs
    BY DEF SyncDir, Deliver, IInv, TargetTaken, Copying
  <1> QED
    BY <1>1, FlushDirFs DEF SyncDir, FlushDir

\* After a power loss the disk is all there is, and no process is alive.
LEMMA PowerLossStep ==
  ASSUME IInv, PowerLoss, [Next]_vars
  PROVE  FsInv' /\ Fresh(dir)' /\ Fresh(dirDisk)' /\ CopyProgress'
  <1>1. /\ dir' = dirDisk /\ data' = diskData /\ UNCHANGED <<dirDisk, diskData>>
        /\ fd' = [r \in Runs |-> None]
        /\ \A r \in Runs : pc'[r] \notin {"write", "fsync", "rename"}
    BY DEF PowerLoss, diskVars, Live, Deciding, Copying
  <1>2. Home(dir)' /\ Home(dirDisk)' /\ LinkedOnce(dir)' /\ LinkedOnce(dirDisk)'
    BY <1>1 DEF IInv, Home, LinkedOnce
  <1>3. FinalsSealed(dir)' /\ FinalsSealed(dirDisk)'
    BY <1>1 DEF IInv, FinalsSealed, Sealed, Artifact
  <1>4. DiskFinalNoPart'
    <2> SUFFICES ASSUME NEW d \in Dirs, NEW e \in Entry, NEW n \in Names,
                        dirDisk[d][e] # None, dirDisk[d][e] = dirDisk[d][<<n, None>>]
                 PROVE  e[2] = None
      BY <1>1 DEF DiskFinalNoPart
    <2>1. e = <<n, None>>
      BY Names2 DEF IInv, LinkedOnce
    <2> QED
      BY <2>1
  <1>5. Fresh(dir)' /\ Fresh(dirDisk)'
    BY <1>1, UnbornStep DEF IInv, Fresh
  <1>6. CopyProgress'
    BY <1>1 DEF CopyProgress, CopyState
  <1> QED
    BY <1>2, <1>3, <1>4, <1>5, <1>6 DEF FsInv

\* A page written back is the page in memory.
LEMMA WritebackStep ==
  ASSUME IInv, NEW i \in Inodes, NEW c \in Chunk, WritebackChunk(i, c), [Next]_vars
  PROVE  FsInv' /\ Fresh(dir)' /\ Fresh(dirDisk)' /\ CopyProgress'
  <1>1. /\ diskData' = [diskData EXCEPT ![i][c] = data[i][c]]
        /\ UNCHANGED <<pc, target, fd, written, dir, data, dirDisk>>
    BY DEF WritebackChunk, runVars
  <1>2. ASSUME NEW j \in Inodes, diskData[j] = data[j] PROVE diskData'[j] = diskData[j]
    <2>1. CASE j # i
      BY <1>1, <2>1 DEF IInv, TypeOK
    <2>2. CASE j = i
      <3>1. diskData[j] \in [Chunk -> Runs \cup {None}]
        BY DEF IInv, TypeOK, Contents
      <3>2. diskData'[j] = [diskData[j] EXCEPT ![c] = diskData[j][c]]
        BY <1>1, <1>2, <2>2 DEF IInv, TypeOK
      <3> QED
        BY <3>1, <3>2
    <2> QED
      BY <2>1, <2>2
  <1>3. ASSUME NEW d \in Dirs, NEW n \in Names
        PROVE  /\ dir[d][<<n, None>>] # None => Sealed(dir[d][<<n, None>>], n)'
               /\ dirDisk[d][<<n, None>>] # None => Sealed(dirDisk[d][<<n, None>>], n)'
    <2>1. dir[d][<<n, None>>] \in Inodes \cup {None} /\ dirDisk[d][<<n, None>>] \in Inodes \cup {None}
      BY Names2 DEF IInv, TypeOK
    <2>2. \A j \in Inodes : Sealed(j, n) => diskData[j] = data[j]
      BY DEF Sealed
    <2> QED
      BY <1>1, <1>2, <2>1, <2>2, SealKept DEF IInv, FinalsSealed
  <1>4. FsInv' /\ Fresh(dir)' /\ Fresh(dirDisk)'
    BY <1>1, <1>3, ContentsFs
  <1>5. ASSUME NEW q \in Runs PROVE CopyState(q)'
    <2>1. CopyState(q)
      BY DEF IInv, CopyProgress
    <2>2. pc[q] \in {"write", "fsync", "rename"} => dir[target[q]][Part(q)] \in Inodes
      BY <2>1, Names2 DEF IInv, TypeOK, TargetTaken, Copying, CopyState
    <2>3. pc[q] = "rename" =>
             diskData'[dir[target[q]][Part(q)]] = diskData[dir[target[q]][Part(q)]]
      BY <1>2, <2>1, <2>2 DEF CopyState
    <2> QED
      BY <1>1, <2>1, <2>3 DEF CopyState, Artifact
  <1> QED
    BY <1>4, <1>5 DEF CopyProgress

\* The steps that leave the part alone: the run is not copying afterwards,
\* or not yet.
LEMMA ControlStep ==
  ASSUME IInv, NEW r \in Runs, UNCHANGED <<dir, data, diskData>>,
         \A q \in Runs \ {r} : pc'[q] = pc[q] /\ fd'[q] = fd[q] /\ written'[q] = written[q]
                               /\ target'[q] = target[q],
         pc'[r] \notin {"write", "fsync", "rename"}, fd'[r] = None
  PROVE  CopyProgress'
  <1>1. ASSUME NEW q \in Runs, q # r PROVE CopyState(q)'
    BY <1>1, CopyKept DEF IInv, CopyProgress
  <1>2. CopyState(r)'
    BY DEF CopyState
  <1> QED
    BY <1>1, <1>2 DEF CopyProgress

\* The steps of a run that leave every file alone.
QuietStep(r) ==
    \/ Begin(r) \/ PreCheck(r) \/ Work(r) \/ WorkFails(r) \/ Recheck(r) \/ NextTarget(r)
    \/ SyncDirFails(r) \/ IOError(r) \/ PartVanished(r) \/ Return(r) \/ Kill(r)

LEMMA QuietOwn ==
  ASSUME IInv, NEW r \in Runs, QuietStep(r)
  PROVE  /\ UNCHANGED fsVars
         /\ pc'[r] \notin {"write", "fsync", "rename"} /\ fd'[r] = None
         /\ \A q \in Runs \ {r} : pc'[q] = pc[q] /\ fd'[q] = fd[q] /\ written'[q] = written[q]
                                  /\ target'[q] = target[q]
  <1>0. CopyState(r) /\ TypeOK
    BY DEF IInv, CopyProgress
  <1>1. CASE Begin(r) \/ PreCheck(r) \/ Work(r) \/ WorkFails(r)
    BY <1>0, <1>1 DEF Begin, PreCheck, Work, WorkFails, Goto, TypeOK, CopyState, Idle
  <1>2. CASE Recheck(r)
    BY <1>0, <1>2 DEF Recheck, Goto, TypeOK, CopyState
  <1>3. CASE NextTarget(r)
    BY <1>0, <1>3 DEF NextTarget, Goto, TypeOK, CopyState
  <1>4. CASE SyncDirFails(r)
    BY <1>0, <1>4 DEF SyncDirFails, Deliver, Goto, TypeOK, CopyState
  <1>5. CASE IOError(r) \/ PartVanished(r)
    BY <1>0, <1>5 DEF IOError, PartVanished, Goto, TypeOK, CopyState
  <1>6. CASE Return(r) \/ Kill(r)
    BY <1>0, <1>6 DEF Return, Kill, Goto, TypeOK, CopyState
  <1> QED
    BY <1>1, <1>2, <1>3, <1>4, <1>5, <1>6 DEF QuietStep

LEMMA IInvInit == Init => IInv
  <1> SUFFICES ASSUME Init PROVE IInv
    OBVIOUS
  <1>1. TypeOK /\ TargetTaken
    BY TypeInit
  <1>2. \A d \in Dirs, e \in Entry : dir[d][e] = None /\ dirDisk[d][e] = None
    BY DEF Init
  <1>3. IsFiniteSet(LiveRuns) /\ LiveParts
    <2>1. LiveRuns = {}
      BY DEF Init, LiveRuns, Idle, Live, Deciding, Copying
    <2> QED
      BY <2>1, FS_EmptySet DEF LiveParts
  <1>4. Home(dir) /\ Home(dirDisk) /\ LinkedOnce(dir) /\ LinkedOnce(dirDisk)
    BY <1>2 DEF Home, LinkedOnce
  <1>5. Fresh(dir) /\ Fresh(dirDisk)
    <2>1. \A r \in Runs, d \in Dirs : <<r, d>> # None
      BY Names2
    <2> QED
      BY <1>2, <2>1 DEF Fresh
  <1>6. FinalsSealed(dir) /\ FinalsSealed(dirDisk) /\ DiskFinalNoPart
    BY <1>2, Names2 DEF FinalsSealed, DiskFinalNoPart
  <1>7. CopyProgress
    BY DEF Init, CopyProgress, CopyState, Idle
  <1> QED
    BY <1>1, <1>3, <1>4, <1>5, <1>6, <1>7 DEF IInv

LEMMA IInvStep == IInv /\ PartsApart /\ [Next]_vars => IInv'
  <1> SUFFICES ASSUME IInv, PartsApart, [Next]_vars PROVE IInv'
    OBVIOUS
  <1>1. TypeOK' /\ TargetTaken' /\ IsFiniteSet(LiveRuns') /\ LiveParts'
    BY TypeStep, LivePartsStep DEF IInv
  <1> DEFINE Rest == FsInv' /\ Fresh(dir)' /\ Fresh(dirDisk)' /\ CopyProgress'
  <1>2. ASSUME NEW r \in Runs, QuietStep(r) PROVE Rest
    BY <1>2, QuietOwn, QuietFs, ControlStep DEF fsVars
  <1>3. ASSUME NEW r \in Runs, OpenPart(r) PROVE Rest
    BY <1>1, <1>3, OpenPartStep
  <1>4. ASSUME NEW r \in Runs, WriteChunk(r) PROVE Rest
    BY <1>4, WriteChunkStep
  <1>5. ASSUME NEW r \in Runs, CloseCopy(r) PROVE Rest
    BY <1>5, CloseCopyStep, QuietFs DEF CloseCopy
  <1>6. ASSUME NEW r \in Runs, Fsync(r) PROVE Rest
    BY <1>6, FsyncStep
  <1>7. ASSUME NEW r \in Runs, Rename(r) PROVE Rest
    BY <1>7, RenameStep
  <1>8. ASSUME NEW r \in Runs, SyncDir(r) PROVE Rest
    <2>1. CopyState(r) /\ TypeOK
      BY DEF IInv, CopyProgress
    <2>2. /\ UNCHANGED <<dir, data, diskData>> /\ pc'[r] = "loop" /\ fd'[r] = None
          /\ \A q \in Runs \ {r} : pc'[q] = pc[q] /\ fd'[q] = fd[q] /\ written'[q] = written[q]
                                   /\ target'[q] = target[q]
      BY <1>8, <2>1 DEF SyncDir, Deliver, Goto, TypeOK, CopyState
    <2> QED
      BY <1>8, <2>2, SyncDirStep, ControlStep
  <1>9. ASSUME NEW r \in Runs, UnlinkPart(r) PROVE Rest
    BY <1>9, UnlinkStep
  <1>10. ASSUME PowerLoss PROVE Rest
    BY <1>10, PowerLossStep
  <1>11. ASSUME NEW d \in Dirs, WritebackDir(d) PROVE Rest
    <2>1. /\ dirDisk' = [dirDisk EXCEPT ![d] = dir[d]]
          /\ UNCHANGED <<pc, target, fd, written, dir, data, diskData>>
      BY <1>11 DEF WritebackDir, runVars
    <2>2. CopyProgress'
      BY <2>1 DEF IInv, CopyProgress, CopyState, Artifact
    <2> QED
      BY <2>1, <2>2, FlushDirFs
  <1>12. ASSUME NEW i \in Inodes, NEW c \in Chunk, WritebackChunk(i, c) PROVE Rest
    BY <1>12, WritebackStep
  <1>13. ASSUME UNCHANGED vars PROVE Rest
    <2>1. UNCHANGED <<pc, target, fd, written, dir, data, diskData>> /\ UNCHANGED fsVars
      BY <1>13 DEF vars, runVars, fsVars
    <2>2. CopyProgress'
      BY <2>1 DEF IInv, CopyProgress, CopyState, Artifact
    <2>3. FsInv' /\ Fresh(dir)' /\ Fresh(dirDisk)'
      BY <2>1, QuietFs
    <2> QED
      BY <2>2, <2>3
  <1>14. Rest
    BY <1>2, <1>3, <1>4, <1>5, <1>6, <1>7, <1>8, <1>9, <1>10, <1>11, <1>12, <1>13
    DEF Next, RunStep, Done, QuietStep
  <1> QED
    BY <1>1, <1>14 DEF IInv, FsInv

LEMMA SealedWhole == IInv => FinalsWhole
  BY DEF IInv, FinalsSealed, FinalsWhole, Sealed

\* The files of a delivery are in order at every step: inodes stay in the
\* directory they were created in and are linked once, every final name leads to
\* a sealed artifact, in memory and on disk, and every copy under way is as far
\* as its run believes.
THEOREM FilesAlwaysInOrder == PartsApart /\ Spec => []IInv
  <1>1. CASE PartsApart
    <2>1. IInv /\ [Next]_vars => IInv'
      BY <1>1, IInvStep
    <2> QED
      BY <2>1, IInvInit, PTL DEF Spec
  <1>2. CASE ~PartsApart
    BY <1>2
  <1> QED
    BY <1>1, <1>2

\* When live processes have process ids of their own, or live runs file names
\* of their own, whatever is under a final name is the whole artifact of one
\* run, at every moment: for any number of runs, targets and write calls, any
\* interleaving, any failing call, kills and power losses (deliver_one's part,
\* fsync and rename).
THEOREM FinalsAlwaysWhole == PartsApart /\ Spec => []FinalsWhole
  BY FilesAlwaysInOrder, SealedWhole, PTL
=============================================================================
