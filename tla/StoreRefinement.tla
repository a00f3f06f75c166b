-------------------------- MODULE StoreRefinement ---------------------------
(***************************************************************************)
(* Proof that Delivery implements ArchiveStore, for all values of its      *)
(* constants, when no two runs with one file name overlap.                 *)
(***************************************************************************)
EXTENDS StoreProofs

-----------------------------------------------------------------------------
(* The mapping, where every final file is sealed.                          *)

LEMMA OwnArtifact ==
  ASSUME NEW r \in Runs
  PROVE  OwnerOf(Artifact(r)) = r
  BY ArtifactsDiffer DEF OwnerOf

\* What a final name is mapped to, and after a step.
LEMMA ArchiveOf ==
  \A d \in Dirs, n \in Names :
     Archives[d][n] = IF dir[d][<<n, None>>] = None
                      THEN None ELSE OwnerOf(data[dir[d][<<n, None>>]])
  BY DEF Archives

LEMMA ArchiveNext ==
  (\A d \in Dirs, n \in Names :
      Archives[d][n] = IF dir[d][<<n, None>>] = None
                       THEN None ELSE OwnerOf(data[dir[d][<<n, None>>]]))'
  BY ArchiveOf, PTL

\* A final name is mapped to a run exactly when it is taken.
LEMMA ArchiveTaken ==
  ASSUME IInv, NEW d \in Dirs, NEW n \in Names
  PROVE  Archives[d][n] = None <=> dir[d][<<n, None>>] = None
  <1>1. ASSUME dir[d][<<n, None>>] # None PROVE Archives[d][n] # None
    <2>1. PICK r \in Runs : data[dir[d][<<n, None>>]] = Artifact(r)
      BY <1>1 DEF IInv, FinalsSealed, Sealed
    <2>2. Archives[d][n] = r
      BY <1>1, <2>1, OwnArtifact, ArchiveOf
    <2> QED
      BY <2>2, NoneAssumption
  <1> QED
    BY <1>1, ArchiveOf

\* A name is settled when its entry is on disk: the content is there already.
OnDisk(d, n) ==
    dir[d][<<n, None>>] # None /\ dirDisk[d][<<n, None>>] = dir[d][<<n, None>>]

LEMMA SettledOf == IInv => \A d \in Dirs : SettledNames[d] = {n \in Names : OnDisk(d, n)}
  BY SealedOnDisk DEF SettledNames, OnDisk

LEMMA SettledNext == IInv' => (\A d \in Dirs : SettledNames[d] = {n \in Names : OnDisk(d, n)})'
  BY SettledOf, PTL

\* Where the same names are on disk, the same are settled.
LEMMA SettledSame ==
  ASSUME IInv, IInv', NEW d \in Dirs, \A n \in Names : OnDisk(d, n)' <=> OnDisk(d, n)
  PROVE  SettledNames'[d] = SettledNames[d]
  <1>1. SettledNames'[d] = {n \in Names : OnDisk(d, n)'}
    BY SettledNext
  <1>2. SettledNames[d] = {n \in Names : OnDisk(d, n)}
    BY SettledOf
  <1> QED
    BY <1>1, <1>2

LEMMA HeldArchive ==
  ASSUME NEW r \in Runs, NEW d \in Dirs, Holds(r, d)
  PROVE  Archives[d][FinalName[r]] = r
  BY ArchiveOf, OwnArtifact, NamesAssumption DEF Holds, Dest

-----------------------------------------------------------------------------
(* The steps.                                                              *)

LEMMA SameArchives ==
  ASSUME FinalsSame
  PROVE  Archives' = Archives
  <1>1. ASSUME NEW d \in Dirs, NEW n \in Names
        PROVE  (IF dir'[d][<<n, None>>] = None THEN None ELSE OwnerOf(data'[dir'[d][<<n, None>>]]))
             = (IF dir[d][<<n, None>>] = None THEN None ELSE OwnerOf(data[dir[d][<<n, None>>]]))
    BY DEF FinalsSame
  <1> QED
    BY <1>1 DEF Archives, OwnerOf, Artifact

LEMMA SameSettled ==
  ASSUME IInv, IInv', FinalsSame, dirDisk' = dirDisk
  PROVE  SettledNames' = SettledNames
  <1>1. ASSUME NEW d \in Dirs PROVE SettledNames'[d] = SettledNames[d]
    <2>1. \A n \in Names : OnDisk(d, n)' <=> OnDisk(d, n)
      BY DEF FinalsSame, OnDisk
    <2> QED
      BY <2>1, SettledSame
  <1>2. SettledNames = [d \in Dirs |-> SettledNames[d]]
        /\ SettledNames' = [d \in Dirs |-> SettledNames'[d]]
    BY DEF SettledNames
  <1> QED
    BY <1>1, <1>2

\* A function of two arguments, changed in one place.
LEMMA ChangedAt ==
  ASSUME NEW D, NEW N, NEW F, NEW b \in D, NEW m \in N, NEW r,
         DOMAIN F = D, F = [d \in D |-> F[d]],
         \A d \in D : DOMAIN F[d] = N /\ F[d] = [n \in N |-> F[d][n]]
  PROVE  [F EXCEPT ![b][m] = r]
           = [d \in D |-> [n \in N |-> IF d = b /\ n = m THEN r ELSE F[d][n]]]
  <1> DEFINE G == [F EXCEPT ![b][m] = r]
             H == [d \in D |-> [n \in N |-> IF d = b /\ n = m THEN r ELSE F[d][n]]]
  <1>1. G = [d \in D |-> G[d]] /\ H = [d \in D |-> H[d]]
    OBVIOUS
  <1>2. ASSUME NEW d \in D, d # b PROVE G[d] = H[d]
    <2>1. G[d] = F[d]
      BY <1>2
    <2>2. H[d] = [n \in N |-> F[d][n]]
      BY <1>2
    <2> QED
      BY <2>1, <2>2
  <1>3. G[b] = H[b]
    <2>1. G[b] = [F[b] EXCEPT ![m] = r]
      OBVIOUS
    <2>2. [F[b] EXCEPT ![m] = r] = [n \in N |-> IF n = m THEN r ELSE F[b][n]]
      OBVIOUS
    <2>3. H[b] = [n \in N |-> IF n = m THEN r ELSE F[b][n]]
      OBVIOUS
    <2> QED
      BY <2>1, <2>2, <2>3
  <1> HIDE DEF G, H
  <1>4. \A d \in D : G[d] = H[d]
    BY <1>2, <1>3
  <1>5. G = H
    BY <1>1, <1>4
  <1> QED
    BY <1>5 DEF G, H

\* The rename is the moment of publication.
LEMMA RenamePublishes ==
  ASSUME IInv, IInv', StoreInv, NEW r \in Runs, Renamed(r)
  PROVE  Store!Publish(r, target[r])
  <1> DEFINE b == target[r]
             m == FinalName[r]
  <1>1. b \in Dirs /\ m \in Names /\ data' = data /\ dirDisk' = dirDisk
        /\ UNCHANGED <<delivered, warned>>
    BY NamesAssumption DEF Renamed, diskVars
  <1>2. dir[b][<<m, None>>] = None /\ dirDisk[b][<<m, None>>] = None
    BY <1>1, RenameIntoFree DEF StoreInv, DiskBehind
  <1>3. Archives[b][m] = None
    BY <1>1, <1>2, ArchiveOf
  <1>4. ASSUME NEW d \in Dirs, NEW n \in Names, d # b \/ n # m
        PROVE  Archives'[d][n] = Archives[d][n]
    <2>1. dir'[d][<<n, None>>] = dir[d][<<n, None>>]
      BY <1>4 DEF Renamed
    <2> QED
      BY <1>1, <2>1, ArchiveOf, ArchiveNext
  <1>5. Archives'[b][m] = r
    <2>1. dir'[b][<<m, None>>] # None /\ data'[dir'[b][<<m, None>>]] = Artifact(r)
      BY <1>1 DEF Renamed
    <2> QED
      BY <1>1, <2>1, OwnArtifact, ArchiveNext
  <1>6. Archives' = [Archives EXCEPT ![b][m] = r]
    <2>1. /\ Archives = [d \in Dirs |-> [n \in Names |-> Archives[d][n]]]
          /\ Archives' = [d \in Dirs |-> [n \in Names |-> Archives'[d][n]]]
      BY DEF Archives
    <2>2. [Archives EXCEPT ![b][m] = r]
            = [d \in Dirs |-> [n \in Names |-> IF d = b /\ n = m THEN r ELSE Archives[d][n]]]
      <3> DEFINE F == Archives
      <3>1. DOMAIN F = Dirs /\ F = [d \in Dirs |-> F[d]]
        BY DEF Archives
      <3>2. \A d \in Dirs : DOMAIN F[d] = Names /\ F[d] = [n \in Names |-> F[d][n]]
        BY DEF Archives
      <3> HIDE DEF F
      <3>3. [F EXCEPT ![b][m] = r]
              = [d \in Dirs |-> [n \in Names |-> IF d = b /\ n = m THEN r ELSE F[d][n]]]
        BY <1>1, <3>1, <3>2, ChangedAt
      <3> QED
        BY <3>3 DEF F
    <2>3. \A d \in Dirs, n \in Names :
             Archives'[d][n] = IF d = b /\ n = m THEN r ELSE Archives[d][n]
      BY <1>4, <1>5
    <2> HIDE DEF b, m
    <2>4. [d \in Dirs |-> [n \in Names |-> Archives'[d][n]]]
            = [d \in Dirs |-> [n \in Names |-> IF d = b /\ n = m THEN r ELSE Archives[d][n]]]
      BY <2>3
    <2> QED
      BY <2>1, <2>2, <2>4
  <1>7. ASSUME NEW d \in Dirs PROVE SettledNames'[d] = SettledNames[d]
    <2>1. ASSUME NEW n \in Names PROVE OnDisk(d, n)' <=> OnDisk(d, n)
      <3>1. CASE d = b /\ n = m
        <4>1. dir'[d][<<n, None>>] # None /\ dirDisk'[d][<<n, None>>] = None
          BY <1>1, <1>2, <3>1 DEF Renamed
        <4> QED
          BY <1>2, <3>1, <4>1 DEF OnDisk
      <3>2. CASE ~(d = b /\ n = m)
        BY <1>1, <3>2 DEF Renamed, OnDisk
      <3> QED
        BY <3>1, <3>2
    <2> QED
      BY <2>1, SettledSame
  <1>8. SettledNames' = SettledNames
    BY <1>7 DEF SettledNames
  <1> QED
    BY <1>1, <1>3, <1>6, <1>8 DEF Store!Publish

\* A directory written back settles the names in it.
LEMMA FlushSettles ==
  ASSUME IInv, IInv', NEW b \in Dirs, dirDisk' = [dirDisk EXCEPT ![b] = dir[b]],
         dir' = dir, data' = data
  PROVE  /\ Archives' = Archives
         /\ SettledNames' = [SettledNames EXCEPT ![b] = Store!NamesIn(b)]
  <1>1. Archives' = Archives
    BY SameArchives DEF FinalsSame
  <1>2. SettledNames'[b] = Store!NamesIn(b)
    <2>1. dirDisk'[b] = dir[b]
      BY DEF IInv, TypeOK
    <2>2. SettledNames'[b] = {n \in Names : dir[b][<<n, None>>] # None}
      <3>1. SettledNames'[b] = {n \in Names : OnDisk(b, n)'}
        BY SettledNext
      <3>2. \A n \in Names : OnDisk(b, n)' <=> dir[b][<<n, None>>] # None
        BY <2>1 DEF OnDisk
      <3> QED
        BY <3>1, <3>2
    <2>3. Store!NamesIn(b) = {n \in Names : Archives[b][n] # None}
      BY DEF Store!NamesIn
    <2> QED
      BY <2>2, <2>3, ArchiveTaken
  <1>3. ASSUME NEW d \in Dirs, d # b PROVE SettledNames'[d] = SettledNames[d]
    <2>1. dirDisk'[d] = dirDisk[d]
      BY <1>3 DEF IInv, TypeOK
    <2>2. \A n \in Names : OnDisk(d, n)' <=> OnDisk(d, n)
      BY <2>1 DEF OnDisk
    <2> QED
      BY <2>2, SettledSame
  <1> QED
    BY <1>1, <1>2, <1>3 DEF SettledNames

LEMMA PowerLosesUnsettled ==
  ASSUME IInv, IInv', StoreInv, PowerLoss
  PROVE  Store!LosePower
  <1>1. dir' = dirDisk /\ data' = diskData /\ dirDisk' = dirDisk /\ UNCHANGED <<delivered, warned>>
    BY DEF PowerLoss, diskVars
  <1>2. ASSUME NEW d \in Dirs, NEW n \in Names
        PROVE  Archives'[d][n] = IF n \in SettledNames[d] THEN Archives[d][n] ELSE None
    <2>1. CASE n \in SettledNames[d]
      <3>1. dir[d][<<n, None>>] # None /\ dirDisk[d][<<n, None>>] = dir[d][<<n, None>>]
        BY <2>1, SettledOf DEF OnDisk
      <3>2. diskData[dir[d][<<n, None>>]] = data[dir[d][<<n, None>>]]
        BY <3>1, SealedOnDisk
      <3> QED
        BY <1>1, <2>1, <3>1, <3>2, ArchiveOf, ArchiveNext
    <2>2. CASE n \notin SettledNames[d]
      <3>1. dirDisk[d][<<n, None>>] = None
        BY <2>2, SettledOf DEF StoreInv, DiskBehind, OnDisk
      <3> QED
        BY <1>1, <2>2, <3>1, ArchiveNext
    <2> QED
      BY <2>1, <2>2
  <1>3. Archives' = [d \in Dirs |-> [n \in Names |->
                        IF n \in SettledNames[d] THEN Archives[d][n] ELSE None]]
    BY <1>2 DEF Archives
  <1>4. SettledNames' = SettledNames
    <2>1. ASSUME NEW d \in Dirs PROVE SettledNames'[d] = SettledNames[d]
      <3>1. \A n \in Names : OnDisk(d, n)' <=> OnDisk(d, n)
        BY <1>1 DEF StoreInv, DiskBehind, OnDisk
      <3> QED
        BY <3>1, SettledSame
    <2> QED
      BY <2>1 DEF SettledNames
  <1> QED
    BY <1>1, <1>3, <1>4 DEF Store!LosePower

\* The variables of ArchiveStore, mapped.
mapped == <<Archives, SettledNames, delivered, warned>>

LEMMA InitMaps == Init => Store!Init
  <1> SUFFICES ASSUME Init PROVE Store!Init
    OBVIOUS
  <1>1. \A d \in Dirs, n \in Names : dir[d][<<n, None>>] = None
    BY Names2 DEF Init
  <1>2. Archives = [d \in Dirs |-> [n \in Names |-> None]]
    BY <1>1 DEF Archives
  <1>3. SettledNames = [d \in Dirs |-> {}]
    BY <1>1 DEF SettledNames
  <1> QED
    BY <1>2, <1>3 DEF Init, Store!Init

\* The report of a target: with the directory synced, or with a warning.
LEMMA ReportMaps ==
  ASSUME IInv, IInv', StoreInv, NEW r \in Runs, SyncDir(r) \/ SyncDirFails(r)
  PROVE  Store!Next
  <1> DEFINE b == target[r]
  <1>1. b \in Dirs /\ pc[r] = "syncdir" /\ dir' = dir /\ data' = data
        /\ delivered' = [delivered EXCEPT ![r] = @ \cup {b}]
    BY DEF SyncDir, SyncDirFails, Deliver, fsVars, IInv, TargetTaken, Copying
  <1>2. Archives[b][FinalName[r]] = r
    BY <1>1, HeldArchive DEF StoreInv, Owned
  <1>3. CASE SyncDir(r)
    <2>1. dirDisk' = [dirDisk EXCEPT ![b] = dir[b]] /\ warned' = warned
      BY <1>3 DEF SyncDir, FlushDir
    <2>2. Archives' = Archives /\ SettledNames' = [SettledNames EXCEPT ![b] = Store!NamesIn(b)]
      BY <1>1, <2>1, FlushSettles
    <2>3. Store!Report(r, b)
      BY <1>1, <1>2, <2>1, <2>2 DEF Store!Report
    <2>4. \E d \in Dirs : Store!Report(r, d)
      BY <1>1, <2>3 DEF Store!Report
    <2> QED
      BY <2>4 DEF Store!Next
  <1>4. CASE SyncDirFails(r)
    <2>1. dirDisk' = dirDisk /\ warned' = [warned EXCEPT ![r] = @ \cup {b}]
      BY <1>4 DEF SyncDirFails, fsVars
    <2>2. FinalsSame
      BY <1>1 DEF FinalsSame
    <2>3. Archives' = Archives /\ SettledNames' = SettledNames
      BY <2>1, <2>2, SameArchives, SameSettled
    <2>4. Store!ReportWarned(r, b)
      BY <1>1, <1>2, <2>1, <2>3 DEF Store!ReportWarned
    <2>5. \E d \in Dirs : Store!ReportWarned(r, d)
      BY <1>1, <2>4 DEF Store!ReportWarned
    <2> QED
      BY <2>5 DEF Store!Next
  <1> QED
    BY <1>3, <1>4

\* Everything else a run does is invisible in the store.
Invisible(r) ==
    \/ Begin(r) \/ PreCheck(r) \/ Work(r) \/ WorkFails(r) \/ Recheck(r) \/ NextTarget(r)
    \/ OpenPart(r) \/ WriteChunk(r) \/ CloseCopy(r) \/ Fsync(r) \/ IOError(r)
    \/ PartVanished(r) \/ UnlinkPart(r) \/ Return(r) \/ Kill(r)

LEMMA InvisibleMaps ==
  ASSUME IInv, IInv', NEW r \in Runs, Invisible(r)
  PROVE  UNCHANGED mapped
  <1>1. FinalsSame
    <2>1. CASE OpenPart(r) \/ WriteChunk(r) \/ UnlinkPart(r)
      BY <2>1, CopyFinalsSame, UnlinkFinalsSame
    <2>2. CASE ~(OpenPart(r) \/ WriteChunk(r) \/ UnlinkPart(r))
      <3>1. UNCHANGED <<dir, data>>
        BY <2>2 DEF Invisible, Begin, PreCheck, Work, WorkFails, Recheck, NextTarget,
                    CloseCopy, Fsync, IOError, PartVanished, Return, Kill, fsVars
      <3> QED
        BY <3>1 DEF FinalsSame
    <2> QED
      BY <2>1, <2>2
  <1>2. UNCHANGED <<dirDisk, delivered, warned>>
    BY DEF Invisible, Begin, PreCheck, Work, WorkFails, Recheck, NextTarget, OpenPart,
           WriteChunk, CloseCopy, Fsync, IOError, PartVanished, UnlinkPart, Return, Kill,
           fsVars, diskVars
  <1> QED
    BY <1>1, <1>2, SameArchives, SameSettled DEF mapped

LEMMA StepMaps ==
  IInv /\ IInv' /\ StoreInv /\ [Next]_vars => Store!Next \/ UNCHANGED mapped
  <1> SUFFICES ASSUME IInv, IInv', StoreInv, [Next]_vars
               PROVE  Store!Next \/ UNCHANGED mapped
    OBVIOUS
  <1>1. ASSUME NEW r \in Runs, Rename(r) PROVE Store!Next
    <2>1. Renamed(r)
      BY <1>1, RenameRenames
    <2>2. Store!Publish(r, target[r])
      BY <2>1, RenamePublishes
    <2>3. target[r] \in Dirs
      BY <2>1 DEF Renamed
    <2>4. \E d \in Dirs : Store!Publish(r, d)
      BY <2>2, <2>3 DEF Store!Publish
    <2> QED
      BY <2>4 DEF Store!Next
  <1>2. ASSUME NEW r \in Runs, SyncDir(r) \/ SyncDirFails(r) PROVE Store!Next
    BY <1>2, ReportMaps
  <1>3. ASSUME NEW r \in Runs, Invisible(r) PROVE UNCHANGED mapped
    BY <1>3, InvisibleMaps
  <1>4. ASSUME PowerLoss PROVE Store!Next
    BY <1>4, PowerLosesUnsettled DEF Store!Next
  <1>5. ASSUME NEW d \in Dirs, WritebackDir(d) PROVE Store!Next
    <2>1. /\ dirDisk' = [dirDisk EXCEPT ![d] = dir[d]] /\ dir' = dir /\ data' = data
          /\ UNCHANGED <<delivered, warned>>
      BY <1>5 DEF WritebackDir, runVars
    <2>2. Archives' = Archives /\ SettledNames' = [SettledNames EXCEPT ![d] = Store!NamesIn(d)]
      BY <2>1, FlushSettles
    <2> QED
      BY <2>1, <2>2 DEF Store!Next, Store!Settle
  <1>6. ASSUME UNCHANGED <<dir, data, dirDisk, delivered, warned>> PROVE UNCHANGED mapped
    <2>1. FinalsSame
      BY <1>6 DEF FinalsSame
    <2> QED
      BY <1>6, <2>1, SameArchives, SameSettled DEF mapped
  <1>7. CASE Done \/ UNCHANGED vars \/ \E i \in Inodes, c \in Chunk : WritebackChunk(i, c)
    BY <1>6, <1>7 DEF Done, WritebackChunk, vars, runVars, fsVars
  <1> QED
    BY <1>1, <1>2, <1>3, <1>4, <1>5, <1>7 DEF Next, RunStep, Invisible

\* Delivery implements ArchiveStore: seen from the outside, the copy, the
\* fsync, the rename and the fsync of the directory make an archive appear
\* whole, in one step and under a free name, and what is reported without a
\* warning survives every power loss.
THEOREM DeliveryIsStore == Serial /\ Spec => StoreSpec
  <1>1. CASE Serial
    <2>1. Spec => []IInv
      BY <1>1, FilesAlwaysInOrder DEF Serial, PartsApart
    <2>2. Spec => []StoreInv
      BY <1>1, StoreAlwaysInOrder
    <2> QED
      BY <2>1, <2>2, InitMaps, StepMaps, PTL DEF Spec, StoreSpec, Store!Spec, Store!storeVars, mapped
  <1>2. CASE ~Serial
    BY <1>2
  <1> QED
    BY <1>1, <1>2
=============================================================================
