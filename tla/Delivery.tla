------------------------------ MODULE Delivery ------------------------------
(***************************************************************************)
(* Delivery of finished archives to local target directories, one system   *)
(* call at a time: deliver.rs, and the two checks that guard it in         *)
(* lib.rs's run.  Several runs may be alive at once (two cron jobs, two    *)
(* containers, two threads of a program that calls the library), any of    *)
(* them may be killed, any call may fail, and the machine may lose power.  *)
(*                                                                         *)
(* A directory maps file names to inodes, and an inode holds the chunks    *)
(* written so far; each has a copy in memory (dir, data) and a copy on     *)
(* disk (dirDisk, diskData), which is all that a power loss leaves.        *)
(***************************************************************************)
EXTENDS Naturals, FiniteSets

CONSTANTS
    Runs,        \* invocations of run() that reach its preflight
    Dirs,        \* the target directories, canonicalized
    Names,       \* final file names <name>-<stamp>.tgz[.gpg]
    Pids,        \* process ids
    FinalName,   \* FinalName[r]: the file name r minted at its start
    Pid,         \* Pid[r]: the id of the process r runs in
    TargetsOf,   \* TargetsOf[r]: the directories r was asked to deliver to
    Chunks,      \* an artifact is this many write calls long
    Faults,      \* what may go wrong, a subset of FaultKinds
    SharedPids,  \* TRUE: live runs may have the same pid (containers, threads)
    MaxLive,     \* bound on the runs alive at the same time
    None         \* no file, no chunk, no file descriptor

FaultKinds == {"stat", "work", "copy", "write", "fsync", "rename",
               "syncdir", "unlink", "kill", "power"}

ASSUME NamesAssumption == FinalName \in [Runs -> Names]
ASSUME PidsAssumption == Pid \in [Runs -> Pids] /\ None \notin Pids
ASSUME TargetsAssumption == TargetsOf \in [Runs -> SUBSET Dirs]
ASSUME ChunksAssumption == Chunks \in Nat \ {0}
ASSUME FaultsAssumption == Faults \subseteq FaultKinds
ASSUME SharedPidsAssumption == SharedPids \in BOOLEAN
ASSUME MaxLiveAssumption == MaxLive \in Nat
ASSUME NoneAssumption == None \notin Runs /\ None \notin Runs \X Dirs

VARIABLES
    pc,          \* where each run is
    todo,        \* the targets a run's loop has still to visit
    target,      \* the target it is working on
    delivered,   \* the targets it counts as delivered
    failures,    \* the targets its error names
    warned,      \* the delivered targets it printed an fsync warning for
    fd,          \* the inode its copy has open for writing
    written,     \* the chunks its copy has written
    dir, dirDisk,
    data, diskData

runVars  == <<pc, todo, target, delivered, failures, warned, fd, written>>
diskVars == <<dirDisk, diskData>>
fsVars   == <<dir, data, dirDisk, diskData>>
vars     == <<runVars, fsVars>>

Idle     == "idle"
Deciding == {"precheck", "work", "recheck", "loop"}
Copying  == {"copy", "write", "fsync", "rename", "syncdir", "unlink"}
Live     == Deciding \cup Copying
Ended    == {"refused", "aborted", "collided", "returned", "crashed"}

Entry     == Names \X (Pids \cup {None})
Inodes    == Runs \X Dirs
Chunk     == 1..Chunks
Contents  == [Chunk -> Runs \cup {None}]
Empty     == [c \in Chunk |-> None]
Artifact(r) == [c \in Chunk |-> r]

Dest(r) == <<FinalName[r], None>>     \* <file_name>

\* <file_name>.part.<pid>; a bug would leave the process id out of it.
PartWithoutPid(r) == <<FinalName[r], CHOOSE p \in Pids : TRUE>>
Part(r) == <<FinalName[r], Pid[r]>>

\* Is the final name taken?  A bug would look at the part instead.
OccupiedPart(r, d) == dir[d][Part(r)] # None
Occupied(r, d) == dir[d][Dest(r)] # None

\* ensure_targets_free: the targets that already hold the file name.
Collisions(r) == {d \in TargetsOf[r] : Occupied(r, d)}

\* Path::exists answers false when the metadata call itself fails.
Seen(present) == IF "stat" \in Faults THEN SUBSET present ELSE {present}

LiveRuns == {r \in Runs : pc[r] \in Live}

TypeOK ==
    /\ pc \in [Runs -> {Idle} \cup Live \cup Ended]
    /\ todo \in [Runs -> SUBSET Dirs]
    /\ target \in [Runs -> Dirs \cup {None}]
    /\ delivered \in [Runs -> SUBSET Dirs]
    /\ failures \in [Runs -> SUBSET Dirs]
    /\ warned \in [Runs -> SUBSET Dirs]
    /\ fd \in [Runs -> Inodes \cup {None}]
    /\ written \in [Runs -> 0..Chunks]
    /\ dir \in [Dirs -> [Entry -> Inodes \cup {None}]]
    /\ dirDisk \in [Dirs -> [Entry -> Inodes \cup {None}]]
    /\ data \in [Inodes -> Contents]
    /\ diskData \in [Inodes -> Contents]

Init ==
    /\ pc = [r \in Runs |-> Idle]
    /\ todo = [r \in Runs |-> {}]
    /\ target = [r \in Runs |-> None]
    /\ delivered = [r \in Runs |-> {}]
    /\ failures = [r \in Runs |-> {}]
    /\ warned = [r \in Runs |-> {}]
    /\ fd = [r \in Runs |-> None]
    /\ written = [r \in Runs |-> 0]
    /\ dir = [d \in Dirs |-> [e \in Entry |-> None]]
    /\ dirDisk = dir
    /\ data = [i \in Inodes |-> Empty]
    /\ diskData = data

-----------------------------------------------------------------------------
(* The run, from its start to the end of deliver().                        *)

Goto(r, l) == pc' = [pc EXCEPT ![r] = l]

\* The process starts; another one may be alive under the same pid only in
\* another pid namespace, or as a thread of the same process.
Begin(r) ==
    /\ pc[r] = Idle
    /\ Cardinality(LiveRuns) < MaxLive
    /\ SharedPids \/ \A q \in LiveRuns : Pid[q] # Pid[r]
    /\ Goto(r, "precheck")
    /\ UNCHANGED <<todo, target, delivered, failures, warned, fd, written, fsVars>>

\* run() refuses before doing any work when a target holds the file name.
PreCheck(r) ==
    /\ pc[r] = "precheck"
    /\ \E seen \in Seen(Collisions(r)) :
          Goto(r, IF seen = {} THEN "work" ELSE "refused")
    /\ UNCHANGED <<todo, target, delivered, failures, warned, fd, written, fsVars>>

\* Snapshot, archive and encryption: the artifact is finished in scratch.
Work(r) ==
    /\ pc[r] = "work"
    /\ Goto(r, "recheck")
    /\ UNCHANGED <<todo, target, delivered, failures, warned, fd, written, fsVars>>

WorkFails(r) ==
    /\ pc[r] = "work"
    /\ "work" \in Faults
    /\ Goto(r, "aborted")
    /\ UNCHANGED <<todo, target, delivered, failures, warned, fd, written, fsVars>>

\* The belt-and-braces check at the top of deliver(): one collision ends the
\* delivery, and the error names the colliding targets only.
Recheck(r) ==
    /\ pc[r] = "recheck"
    /\ \E seen \in Seen(Collisions(r)) :
          IF seen = {}
          THEN /\ todo' = [todo EXCEPT ![r] = TargetsOf[r]]
               /\ Goto(r, "loop")
               /\ UNCHANGED failures
          ELSE /\ failures' = [failures EXCEPT ![r] = seen]
               /\ Goto(r, "collided")
               /\ UNCHANGED todo
    /\ UNCHANGED <<target, delivered, warned, fd, written, fsVars>>

\* A taken name fails the target; a bug would only skip it.
SkipSilently(r, d) == UNCHANGED failures
Skip(r, d) == failures' = [failures EXCEPT ![r] = @ \cup {d}]

\* The loop takes the next target (in the order of the flags, which is any
\* order), and skips it when the file name is taken.
NextTarget(r) ==
    /\ pc[r] = "loop"
    /\ \E d \in todo[r] :
          /\ todo' = [todo EXCEPT ![r] = @ \ {d}]
          /\ \/ /\ Occupied(r, d)
                /\ Skip(r, d)
                /\ UNCHANGED <<pc, target>>
             \/ /\ ~Occupied(r, d) \/ "stat" \in Faults
                /\ target' = [target EXCEPT ![r] = d]
                /\ Goto(r, "copy")
                /\ UNCHANGED failures
    /\ UNCHANGED <<delivered, warned, fd, written, fsVars>>

\* fs::copy opens the part: created, or truncated when it is already there.
OpenPart(r) ==
    /\ pc[r] = "copy"
    /\ LET d == target[r]
           i == IF dir[d][Part(r)] = None THEN <<r, d>> ELSE dir[d][Part(r)]
       IN  /\ dir' = [dir EXCEPT ![d][Part(r)] = i]
           /\ data' = [data EXCEPT ![i] = Empty]
           /\ fd' = [fd EXCEPT ![r] = i]
    /\ written' = [written EXCEPT ![r] = 0]
    /\ Goto(r, "write")
    /\ UNCHANGED <<todo, target, delivered, failures, warned, diskVars>>

MoreToWriteOrDone(r) == written[r] <= Chunks
MoreToWrite(r) == written[r] < Chunks

\* One write call of fs::copy, at the descriptor's own offset.
WriteChunk(r) ==
    /\ pc[r] = "write"
    /\ MoreToWrite(r)
    /\ data' = [data EXCEPT ![fd[r]][written[r] + 1] = r]
    /\ written' = [written EXCEPT ![r] = @ + 1]
    /\ UNCHANGED <<pc, todo, target, delivered, failures, warned, fd, dir, diskVars>>

CloseCopy(r) ==
    /\ pc[r] = "write"
    /\ ~MoreToWrite(r)
    /\ fd' = [fd EXCEPT ![r] = None]
    /\ Goto(r, "fsync")
    /\ UNCHANGED <<todo, target, delivered, failures, warned, written, fsVars>>

\* What fsync of an inode makes durable, and fsync of a directory; without
\* the call nothing is.
NoFlush(i) == UNCHANGED diskData
NoFlushDir(d) == UNCHANGED dirDisk
Flush(i) == diskData' = [diskData EXCEPT ![i] = data[i]]
FlushDir(d) == dirDisk' = [dirDisk EXCEPT ![d] = dir[d]]

\* The part is opened again, by name, and synced.
Fsync(r) ==
    /\ pc[r] = "fsync"
    /\ LET i == dir[target[r]][Part(r)]
       IN  i # None /\ Flush(i)
    /\ Goto(r, "rename")
    /\ UNCHANGED <<todo, target, delivered, failures, warned, fd, written,
                   dir, data, dirDisk>>

\* rename(2): replaces whatever has the final name.
Rename(r) ==
    /\ pc[r] = "rename"
    /\ LET d == target[r]
           i == dir[d][Part(r)]
       IN  /\ i # None
           /\ dir' = [dir EXCEPT ![d][Dest(r)] = i, ![d][Part(r)] = None]
    /\ Goto(r, "syncdir")
    /\ UNCHANGED <<todo, target, delivered, failures, warned, fd, written,
                   data, diskVars>>

Deliver(r) ==
    /\ pc[r] = "syncdir"
    /\ delivered' = [delivered EXCEPT ![r] = @ \cup {target[r]}]
    /\ target' = [target EXCEPT ![r] = None]
    /\ Goto(r, "loop")

\* The directory entry is made durable, and the target is delivered.
SyncDir(r) ==
    /\ Deliver(r)
    /\ FlushDir(target[r])
    /\ UNCHANGED <<todo, failures, warned, fd, written, dir, data, diskData>>

\* A directory fsync that fails is a warning: the target is delivered.
SyncDirFails(r) ==
    /\ "syncdir" \in Faults
    /\ Deliver(r)
    /\ warned' = [warned EXCEPT ![r] = @ \cup {target[r]}]
    /\ UNCHANGED <<todo, failures, fd, written, fsVars>>

\* A bug: trying the copy again, without a bound.
RetryForever(r) ==
    /\ pc[r] \in {"copy", "write", "fsync", "rename"} \cap Faults
    /\ fd' = [fd EXCEPT ![r] = None]
    /\ Goto(r, "copy")
    /\ UNCHANGED <<todo, target, delivered, failures, warned, written, fsVars>>

\* A call of deliver_one fails; nothing it did so far is undone here.
IOError(r) ==
    /\ pc[r] \in {"copy", "write", "fsync", "rename"} \cap Faults
    /\ fd' = [fd EXCEPT ![r] = None]
    /\ Goto(r, "unlink")
    /\ UNCHANGED <<todo, target, delivered, failures, warned, written, fsVars>>

\* Opening or renaming the part fails because it is no longer there.
PartVanished(r) ==
    /\ pc[r] \in {"fsync", "rename"}
    /\ dir[target[r]][Part(r)] = None
    /\ Goto(r, "unlink")
    /\ UNCHANGED <<todo, target, delivered, failures, warned, fd, written, fsVars>>

KeepPart(r) == UNCHANGED dir
RemovePart(r) == dir' = [dir EXCEPT ![target[r]][Part(r)] = None]

\* The error path removes the part (ignoring an error) and names the target.
UnlinkPart(r) ==
    /\ pc[r] = "unlink"
    /\ \/ RemovePart(r)
       \/ "unlink" \in Faults /\ UNCHANGED dir
    /\ failures' = [failures EXCEPT ![r] = @ \cup {target[r]}]
    /\ target' = [target EXCEPT ![r] = None]
    /\ Goto(r, "loop")
    /\ UNCHANGED <<todo, delivered, warned, fd, written, data, diskVars>>

\* A bug: the loop ends before it has visited every target.
LastTarget(r) == Cardinality(todo[r]) <= 1
AllVisited(r) == todo[r] = {}

Return(r) ==
    /\ pc[r] = "loop"
    /\ AllVisited(r)
    /\ Goto(r, "returned")
    /\ UNCHANGED <<todo, target, delivered, failures, warned, fd, written, fsVars>>

-----------------------------------------------------------------------------
(* The machine.                                                            *)

\* The process is killed: no destructor runs, files stay as they are.
Kill(r) ==
    /\ "kill" \in Faults
    /\ pc[r] \in Live
    /\ Goto(r, "crashed")
    /\ fd' = [fd EXCEPT ![r] = None]
    /\ UNCHANGED <<todo, target, delivered, failures, warned, written, fsVars>>

\* Every process dies and only what reached the disk is left.
PowerLoss ==
    /\ "power" \in Faults
    /\ pc' = [r \in Runs |-> IF pc[r] \in Live THEN "crashed" ELSE pc[r]]
    /\ fd' = [r \in Runs |-> None]
    /\ dir' = dirDisk
    /\ data' = diskData
    /\ UNCHANGED <<todo, target, delivered, failures, warned, written, diskVars>>

\* The kernel writes a directory or a dirty page back when it likes.
WritebackDir(d) ==
    /\ "power" \in Faults
    /\ dirDisk' = [dirDisk EXCEPT ![d] = dir[d]]
    /\ UNCHANGED <<runVars, dir, data, diskData>>

WritebackChunk(i, c) ==
    /\ "power" \in Faults
    /\ diskData' = [diskData EXCEPT ![i][c] = data[i][c]]
    /\ UNCHANGED <<runVars, dir, data, dirDisk>>

\* A step of a run's own code that succeeds or fails, but does get taken.
RunStep(r) ==
    \/ PreCheck(r) \/ Work(r) \/ WorkFails(r) \/ Recheck(r) \/ NextTarget(r)
    \/ OpenPart(r) \/ WriteChunk(r) \/ CloseCopy(r) \/ Fsync(r) \/ Rename(r)
    \/ SyncDir(r) \/ SyncDirFails(r) \/ IOError(r) \/ PartVanished(r)
    \/ UnlinkPart(r) \/ Return(r)

\* All runs are over: nothing more happens, which is not a deadlock.
Done == (\A r \in Runs : pc[r] \in Ended) /\ UNCHANGED vars

Next ==
    \/ \E r \in Runs : Begin(r) \/ RunStep(r) \/ Kill(r)
    \/ PowerLoss
    \/ \E d \in Dirs : WritebackDir(d)
    \/ \E i \in Inodes, c \in Chunk : WritebackChunk(i, c)
    \/ Done

Spec == Init /\ [][Next]_vars

\* A live process keeps running: no call of delivery waits for another run.
FairSpec == Spec /\ \A r \in Runs : WF_vars(RunStep(r))

-----------------------------------------------------------------------------
(* Properties.                                                             *)

\* The artifact of r is under its final name in d, every byte of it.
Holds(r, d) == dir[d][Dest(r)] # None /\ data[dir[d][Dest(r)]] = Artifact(r)

\* "The destination never shows a partial file": whatever is under a final
\* name, at any moment and after any crash or power loss, is the whole
\* artifact of one run that minted that name (deliver_one: copy, fsync,
\* rename, under a name no other process uses).
FinalsWhole ==
    \A d \in Dirs, n \in Names :
        LET i == dir[d][<<n, None>>] IN
        i # None => \E r \in Runs : FinalName[r] = n /\ data[i] = Artifact(r)

\* Another archive has the name of r in d, and r has not begun to copy there.
Late(r, d) ==
    /\ Occupied(r, d) /\ ~Holds(r, d)
    /\ ~(pc[r] \in Copying /\ target[r] = d)

\* "Between the pre-check and the copy a concurrent run could place the file;
\* refuse to silently overwrite it": a run that comes late, with its copy to a
\* target not begun when another archive takes its file name there, never puts
\* its own file there, however the two overlap.  Only runs that had all begun
\* to copy can replace each other's archives, and do.
NoLateOverwrite ==
    [][\A r \in Runs, d \in Dirs : Late(r, d) => Late(r, d)' \/ dir' = dirDisk]_vars

\* A target that a run counts as delivered without a warning keeps the run's
\* archive from then on, through the end of the run, later runs, kills and
\* power losses (the fsyncs before and after the rename).
ReportedStays ==
    \A r \in Runs : \A d \in delivered[r] \ warned[r] : Holds(r, d)

\* What a finished run reports is what is on the targets: it accounts for
\* every target, once; its archive is on every one it counts as delivered
\* without a warning, and on none that its error names.
ReportTruthful ==
    \A r \in Runs : pc[r] = "returned" =>
        /\ delivered[r] \cup failures[r] = TargetsOf[r]
        /\ delivered[r] \cap failures[r] = {}
        /\ \A d \in delivered[r] \ warned[r] : Holds(r, d)
        /\ \A d \in failures[r] : ~Holds(r, d)

\* Once no run is alive no part is left in a target, whatever failed and
\* whichever runs shared a part name (the error path of deliver_one).
NoPartLeft ==
    LiveRuns = {} => \A d \in Dirs, e \in Entry : e[2] # None => dir[d][e] = None

\* Delivery gets to an end, whatever fails and whoever else is delivering.
RunEnds == \A r \in Runs : pc[r] = "precheck" ~> pc[r] \in Ended

-----------------------------------------------------------------------------
(* The inductive invariant behind FinalsWhole, when live runs have process *)
(* ids or file names of their own.                                         *)

\* An inode is sealed for a name when memory and disk agree on a whole
\* artifact of that name.
Sealed(i, n) ==
    \E r \in Runs : FinalName[r] = n /\ data[i] = Artifact(r) /\ diskData[i] = Artifact(r)

\* r has not yet created its inode in d.
Unborn(r, d) ==
    \/ pc[r] \in {Idle, "precheck", "work", "recheck"}
    \/ d \in todo[r]
    \/ pc[r] = "copy" /\ target[r] = d

\* Live runs have parts of their own.
LiveParts == \A r, q \in LiveRuns : r # q => Part(r) # Part(q)

\* A run that is copying has a target it will not visit again.
TargetTaken ==
    \A r \in Runs : pc[r] \in Copying => target[r] \in Dirs /\ target[r] \notin todo[r]

\* An inode stays in the directory, and under the name, it was created in.
Home(m) ==
    \A d \in Dirs, e \in Entry : m[d][e] # None =>
        m[d][e][2] = d /\ FinalName[m[d][e][1]] = e[1]

LinkedOnce(m) ==
    \A d \in Dirs, e, f \in Entry : m[d][e] # None /\ m[d][e] = m[d][f] => e = f

Fresh(m) ==
    \A r \in Runs, d \in Dirs, e \in Entry : Unborn(r, d) => m[d][e] # <<r, d>>

FinalsSealed(m) ==
    \A d \in Dirs, n \in Names : m[d][<<n, None>>] # None => Sealed(m[d][<<n, None>>], n)

\* What is final on disk is nobody's part in memory.
DiskFinalNoPart ==
    \A d \in Dirs, e \in Entry, n \in Names :
        dir[d][e] # None /\ dir[d][e] = dirDisk[d][<<n, None>>] => e[2] = None

\* How far the copy of r has come.
CopyState(r) ==
    /\ fd[r] # None => pc[r] = "write"
    /\ pc[r] \in {"write", "fsync", "rename"} => dir[target[r]][Part(r)] # None
    /\ pc[r] = "write" =>
          /\ fd[r] = dir[target[r]][Part(r)]
          /\ \A c \in 1..written[r] : data[fd[r]][c] = r
    /\ pc[r] \in {"fsync", "rename"} => data[dir[target[r]][Part(r)]] = Artifact(r)
    /\ pc[r] = "rename" => diskData[dir[target[r]][Part(r)]] = Artifact(r)

CopyProgress == \A r \in Runs : CopyState(r)

IInv ==
    /\ TypeOK
    /\ IsFiniteSet(LiveRuns) /\ LiveParts /\ TargetTaken
    /\ Home(dir) /\ Home(dirDisk)
    /\ LinkedOnce(dir) /\ LinkedOnce(dirDisk)
    /\ Fresh(dir) /\ Fresh(dirDisk)
    /\ FinalsSealed(dir) /\ FinalsSealed(dirDisk)
    /\ DiskFinalNoPart
    /\ CopyProgress

-----------------------------------------------------------------------------
(* The inductive invariant behind the promises of the report and of the    *)
(* store, when no two runs with one file name overlap.                     *)

OwnNames == \A r, q \in Runs : FinalName[r] = FinalName[q] => r = q
NoRivals == MaxLive <= 1 \/ OwnNames

LiveNames == \A r, q \in LiveRuns : r # q => FinalName[r] # FinalName[q]

\* From the check of the loop to the rename the final name stays free.
NameStillFree ==
    \A r \in Runs : pc[r] \in {"copy", "write", "fsync", "rename"} => ~Occupied(r, target[r])

\* The disk may lag behind memory under a final name, never disagree.
DiskBehind ==
    \A d \in Dirs, n \in Names : dirDisk[d][<<n, None>>] \in {None, dir[d][<<n, None>>]}

\* What is delivered without a warning is on the disk.
Kept ==
    \A r \in Runs : \A d \in delivered[r] \ warned[r] :
        Holds(r, d) /\ dirDisk[d][Dest(r)] = dir[d][Dest(r)]

\* Between the rename and the report the archive of r is in place; where it
\* is in place otherwise, r has reported it or died.
Owned ==
    \A r \in Runs :
        /\ pc[r] = "syncdir" => Holds(r, target[r])
        /\ \A d \in Dirs : Holds(r, d) =>
              d \in delivered[r] \/ pc[r] = "crashed" \/ (pc[r] = "syncdir" /\ target[r] = d)

\* Every target of r is in exactly one place: still to do, being worked on,
\* delivered or failed.
AtHand(r) == IF pc[r] \in Copying THEN {target[r]} ELSE {}
Account(r) ==
    /\ pc[r] \in {Idle, "precheck", "work", "recheck"}
          => delivered[r] = {} /\ failures[r] = {}
    /\ pc[r] \in {"loop", "returned"} \cup Copying =>
          /\ todo[r] \cup AtHand(r) \cup delivered[r] \cup failures[r] = TargetsOf[r]
          /\ delivered[r] \cap failures[r] = {}
          /\ (todo[r] \cup AtHand(r)) \cap (delivered[r] \cup failures[r]) = {}
    /\ pc[r] = "returned" => todo[r] = {}
Accounts == \A r \in Runs : Account(r)

StoreInv ==
    /\ LiveNames /\ NameStillFree /\ DiskBehind
    /\ Kept /\ Owned /\ Accounts

-----------------------------------------------------------------------------
(* Delivery implements ArchiveStore.                                       *)

\* The run whose whole artifact these contents are; a torn file is nobody's.
OwnerOf(contents) ==
    IF \E r \in Runs : contents = Artifact(r)
    THEN CHOOSE r \in Runs : contents = Artifact(r)
    ELSE "torn"

Archives == [d \in Dirs |-> [n \in Names |->
    IF dir[d][<<n, None>>] = None THEN None ELSE OwnerOf(data[dir[d][<<n, None>>]])]]

\* The names whose entry and content are both on disk.
SettledNames == [d \in Dirs |-> {n \in Names :
    LET i == dir[d][<<n, None>>]
    IN  i # None /\ dirDisk[d][<<n, None>>] = i /\ diskData[i] = data[i]}]

Store == INSTANCE ArchiveStore WITH
    archives <- Archives, settled <- SettledNames, reported <- delivered

\* Without runs that overlap, the system-call level does what the abstract
\* store promises, power losses included.
StoreSpec == Store!Spec
=============================================================================
