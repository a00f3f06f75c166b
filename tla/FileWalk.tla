------------------------------ MODULE FileWalk ------------------------------
(***************************************************************************)
(* The walk that streams every regular file of the data directory into the *)
(* archive (files.rs) while vaultwarden keeps changing that directory.     *)
(*                                                                         *)
(* A path is a number, ordered like the names; Parent gives its directory, *)
(* 0 for the root.  A file is an inode with blocks and a modification      *)
(* time; the clock that stamps modifications is coarse: several writes may *)
(* fall into one of its ticks.                                             *)
(***************************************************************************)
EXTENDS Naturals, Sequences, FiniteSets

CONSTANTS
    Paths,       \* the paths that may exist below the source, numbers from 1
    Parent,      \* Parent[p]: the directory p is in, 0 for the source itself
    DirPaths,    \* the paths that are directories when they exist
    Specials,    \* the paths that are symlinks or special files
    Skipped,     \* db.sqlite3, db.sqlite3-wal and db.sqlite3-shm
    InitPaths,   \* what exists when the walk begins
    Inodes,      \* inode numbers, from 1; bounds the replacements of files
    MaxLen,      \* bound on the blocks of a file
    MaxWrites,   \* bound on the changes vaultwarden makes during one walk
    FineClock    \* TRUE: no two changes of the directory in one clock tick

ASSUME PathsAssumption == Paths \subseteq Nat \ {0} /\ IsFiniteSet(Paths)
ASSUME ParentAssumption == Parent \in [Paths -> DirPaths \cup {0}]
ASSUME KindsAssumption == DirPaths \subseteq Paths /\ Specials \subseteq Paths
ASSUME SkippedAssumption == \A p \in Skipped : Parent[p] = 0 /\ p \notin DirPaths

Files == Paths \ (DirPaths \cup Specials)

\* Numbers follow the depth-first name order: what lies between a directory
\* and one of its entries is in that directory too, at whatever depth.
ASSUME OrderAssumption ==
    \A p \in Paths :
        /\ Parent[p] < p
        /\ \A q \in Paths : Parent[p] < q /\ q < p => Parent[p] <= Parent[q]

\* Every path is somewhere below the source.
ASSUME RootAssumption ==
    \A S \in SUBSET Paths : (\A p \in Paths : Parent[p] \in S \cup {0} => p \in S) => S = Paths
ASSUME InitAssumption ==
    InitPaths \subseteq Paths /\ \A p \in InitPaths : Parent[p] \in InitPaths \cup {0}

\* The inodes suffice for every file to begin with one of its own.
OwnInodes(f) == \A p, q \in Files : f[p] = f[q] => p = q
ASSUME InodesAssumption == Inodes \subseteq Nat \ {0} /\ \E f \in [Files -> Inodes] : OwnInodes(f)
ASSUME BoundsAssumption == MaxLen \in Nat \ {0} /\ MaxWrites \in Nat /\ FineClock \in BOOLEAN

VARIABLES
    exists,      \* the paths that exist
    ino,         \* ino[p]: the inode of a file
    blocks,      \* blocks[i]: its contents; every write writes a new value
    mtime,       \* mtime[i]: when it was last modified
    clock,
    changes,     \* how many changes vaultwarden has made
    touched,     \* the paths changed, created or removed during the walk
    pc,
    stack,       \* the paths still to visit, the next one last
    cur,         \* the path being visited
    statLen,     \* its length when the walk looked at it
    fd,          \* the inode opened for it
    opened,      \* the length and mtime of that inode when it was opened
    copied,      \* the blocks streamed so far
    instants,    \* history: every content the open inode has had since then
    archive      \* the entries: path, size in the header, length streamed,
                 \* and whether the file ever had the content streamed

dirVars  == <<exists, ino, blocks, mtime, clock, changes, touched>>
walkVars == <<pc, stack, cur, statLen, fd, opened, copied, instants, archive>>
vars     == <<dirVars, walkVars>>

Blocks == UNION {[1..n -> 0..MaxWrites] : n \in 0..MaxLen}
Times == 0..MaxWrites

TypeOK ==
    /\ exists \subseteq Paths
    /\ ino \in [Files -> Inodes]
    /\ blocks \in [Inodes -> Blocks]
    /\ mtime \in [Inodes -> Times]
    /\ clock \in Times /\ changes \in 0..MaxWrites
    /\ touched \subseteq Paths
    /\ pc \in {"list", "pop", "dir", "open", "fstat", "copy", "check", "done", "failed"}
    /\ stack \in Seq(Paths)
    /\ cur \in Paths \cup {0} /\ fd \in Inodes \cup {0}
    /\ pc = "dir" => cur \in DirPaths
    /\ pc \in {"open", "fstat", "copy", "check"} => cur \in Files
    /\ pc \in {"fstat", "copy", "check"} => fd \in Inodes
    /\ statLen \in 0..MaxLen
    /\ opened \in [len : 0..MaxLen, mtime : Times]
    /\ copied \in Seq(0..MaxWrites) /\ Len(copied) <= MaxLen
    /\ instants \subseteq Blocks
    /\ archive \in Seq([path : Files, size : 0..MaxLen, len : 0..MaxLen, whole : BOOLEAN])

InitIno == CHOOSE f \in [Files -> Inodes] : OwnInodes(f)

Init ==
    /\ exists = InitPaths
    /\ ino = InitIno
    /\ blocks = [i \in Inodes |-> [k \in 1..(MaxLen - 1) |-> 0]]
    /\ mtime = [i \in Inodes |-> 0]
    /\ clock = 0 /\ changes = 0 /\ touched = {}
    /\ pc = "list" /\ stack = <<>> /\ cur = 0 /\ statLen = 0 /\ fd = 0
    /\ opened = [len |-> 0, mtime |-> 0]
    /\ copied = <<>> /\ instants = {} /\ archive = <<>>

-----------------------------------------------------------------------------
(* The walk.                                                               *)

Children(d) == {p \in exists : Parent[p] = d}

\* The entries of a directory in descending name order, so that the stack
\* yields them ascending: a set of one list.  A bug would forget to reverse.
Lists(S) == {s \in [1..Cardinality(S) -> S] : \A p \in S : \E k \in DOMAIN s : s[k] = p}
Ascending(S) == {s \in Lists(S) : \A j, k \in DOMAIN s : j < k => s[j] < s[k]}
Descending(S) == {s \in Lists(S) : \A j, k \in DOMAIN s : j < k => s[j] > s[k]}

\* push_children leaves out the database and its sidecars, at the root only;
\* a bug would take the whole directory.
PushAll(d) == \E s \in Descending(Children(d)) : stack' = stack \o s
PushChildren(d) == \E s \in Descending(Children(d) \ Skipped) : stack' = stack \o s

Top == stack[Len(stack)]
Popped == SubSeq(stack, 1, Len(stack) - 1)

Fail ==
    /\ pc' = "failed"
    /\ UNCHANGED <<dirVars, stack, cur, statLen, fd, opened, copied, instants, archive>>

\* Any call on the way may fail, be it a read of io::copy, and ends the walk.
CallFails ==
    /\ pc \notin {"done", "failed"}
    /\ ~(pc = "pop" /\ stack = <<>>)
    /\ Fail

ListRoot ==
    /\ pc = "list"
    /\ PushChildren(0)
    /\ pc' = "pop"
    /\ UNCHANGED <<dirVars, cur, statLen, fd, opened, copied, instants, archive>>

\* What comes after the lstat of a path: a file is opened, a directory looked
\* into, anything else skipped with a warning; a bug would follow symlinks.
VisitFollowing(p) == IF p \in DirPaths THEN "dir" ELSE "open"
Visit(p) == IF p \in DirPaths THEN "dir" ELSE IF p \in Specials THEN "pop" ELSE "open"

\* lstat of the next path, whose length is noted if it is a file.
Pop ==
    /\ pc = "pop" /\ stack # <<>>
    /\ Top \in exists
    /\ cur' = Top
    /\ stack' = Popped
    /\ pc' = Visit(Top)
    /\ statLen' = IF Top \in Files THEN Len(blocks[ino[Top]]) ELSE statLen
    /\ UNCHANGED <<dirVars, fd, opened, copied, instants, archive>>

\* A path that has gone since its directory was listed fails the run.
PopGone == pc = "pop" /\ stack # <<>> /\ Top \notin exists /\ Fail

ReadDir ==
    /\ pc = "dir"
    /\ cur \in exists
    /\ PushChildren(cur)
    /\ pc' = "pop"
    /\ UNCHANGED <<dirVars, cur, statLen, fd, opened, copied, instants, archive>>

ReadDirGone == pc = "dir" /\ cur \notin exists /\ Fail

Open ==
    /\ pc = "open"
    /\ cur \in exists
    /\ fd' = ino[cur]
    /\ pc' = "fstat"
    /\ UNCHANGED <<dirVars, stack, cur, statLen, opened, copied, instants, archive>>

OpenGone == pc = "open" /\ cur \notin exists /\ Fail

\* The length of the opened file goes into the header, if the lstat agrees.
Fstat ==
    /\ pc = "fstat"
    /\ Len(blocks[fd]) = statLen
    /\ opened' = [len |-> Len(blocks[fd]), mtime |-> mtime[fd]]
    /\ copied' = <<>>
    /\ instants' = {blocks[fd]}
    /\ pc' = "copy"
    /\ UNCHANGED <<dirVars, stack, cur, statLen, fd, archive>>

FstatChanged == pc = "fstat" /\ Len(blocks[fd]) # statLen /\ Fail

\* io::copy reads on until the end of the file, whatever the header says.
ReadBlock ==
    /\ pc = "copy"
    /\ Len(copied) < Len(blocks[fd])
    /\ copied' = Append(copied, blocks[fd][Len(copied) + 1])
    /\ UNCHANGED <<dirVars, pc, stack, cur, statLen, fd, opened, instants, archive>>

ReadEof ==
    /\ pc = "copy"
    /\ Len(copied) >= Len(blocks[fd])
    /\ pc' = "check"
    /\ UNCHANGED <<dirVars, stack, cur, statLen, fd, opened, copied, instants, archive>>

\* file_changed, of the path and not of the open file; bugs would look at
\* the length alone, or not at all.
SizeChanged == Len(blocks[ino[cur]]) # opened.len
FileChanged ==
    \/ Len(blocks[ino[cur]]) # opened.len
    \/ mtime[ino[cur]] # opened.mtime

Accept ==
    /\ pc = "check"
    /\ cur \in exists
    /\ ~FileChanged
    /\ archive' = Append(archive, [path |-> cur, size |-> opened.len,
                                   len |-> Len(copied), whole |-> copied \in instants])
    /\ cur' = 0 /\ statLen' = 0 /\ fd' = 0
    /\ opened' = [len |-> 0, mtime |-> 0]
    /\ copied' = <<>> /\ instants' = {}
    /\ pc' = "pop"
    /\ UNCHANGED <<dirVars, stack>>

Reject == pc = "check" /\ (cur \notin exists \/ FileChanged) /\ Fail

Finish ==
    /\ pc = "pop" /\ stack = <<>>
    /\ pc' = "done"
    /\ UNCHANGED <<dirVars, stack, cur, statLen, fd, opened, copied, instants, archive>>

-----------------------------------------------------------------------------
(* vaultwarden, changing the directory under the walk (external).          *)

\* Every change reads the clock; with a coarse clock several may read the
\* same tick.
Change(p) ==
    /\ changes < MaxWrites
    /\ changes' = changes + 1
    /\ touched' = touched \cup {p}
    /\ clock' \in IF FineClock THEN {clock + 1} ELSE {clock, clock + 1}

\* The open file's history, when the file changed is the open one.
Witness(i, content) ==
    instants' = IF i = fd THEN instants \cup {content} ELSE instants

WalkStays == UNCHANGED <<pc, stack, cur, statLen, fd, opened, copied, archive>>

\* One write call into an existing file: a block overwritten or appended.
Rewrite(p) ==
    /\ p \in exists \cap Files
    /\ Change(p)
    /\ \E k \in 1..MaxLen :
          /\ k <= Len(blocks[ino[p]]) + 1
          /\ LET new == [j \in 1..(IF k > Len(blocks[ino[p]]) THEN k ELSE Len(blocks[ino[p]]))
                            |-> IF j = k THEN changes' ELSE blocks[ino[p]][j]]
             IN  blocks' = [blocks EXCEPT ![ino[p]] = new] /\ Witness(ino[p], new)
    /\ mtime' = [mtime EXCEPT ![ino[p]] = clock']
    /\ UNCHANGED <<exists, ino>> /\ WalkStays

Truncate(p) ==
    /\ p \in exists \cap Files
    /\ Change(p)
    /\ \E n \in 0..MaxLen :
          /\ n < Len(blocks[ino[p]])
          /\ LET new == SubSeq(blocks[ino[p]], 1, n)
             IN  blocks' = [blocks EXCEPT ![ino[p]] = new] /\ Witness(ino[p], new)
    /\ mtime' = [mtime EXCEPT ![ino[p]] = clock']
    /\ UNCHANGED <<exists, ino>> /\ WalkStays

\* A new file is written aside and renamed over p, or created as p.
Replace(p) ==
    /\ p \in Files
    /\ Parent[p] \in exists \cup {0}
    /\ Change(p)
    /\ \E i \in Inodes \ {ino[q] : q \in Files} : \E n \in 1..MaxLen :
          /\ i # fd
          /\ ino' = [ino EXCEPT ![p] = i]
          /\ blocks' = [blocks EXCEPT ![i] = [j \in 1..n |-> changes']]
          /\ mtime' = [mtime EXCEPT ![i] = clock']
    /\ exists' = exists \cup {p}
    /\ UNCHANGED instants /\ WalkStays

MakeDir(p) ==
    /\ p \in DirPaths \ exists
    /\ Parent[p] \in exists \cup {0}
    /\ Change(p)
    /\ exists' = exists \cup {p}
    /\ UNCHANGED <<ino, blocks, mtime, instants>> /\ WalkStays

Remove(p) ==
    /\ p \in exists
    /\ Children(p) = {}
    /\ Change(p)
    /\ exists' = exists \ {p}
    /\ UNCHANGED <<ino, blocks, mtime, instants>> /\ WalkStays

WalkStep ==
    \/ ListRoot \/ Pop \/ PopGone \/ ReadDir \/ ReadDirGone \/ Open \/ OpenGone
    \/ Fstat \/ FstatChanged \/ ReadBlock \/ ReadEof \/ Accept \/ Reject \/ Finish
    \/ CallFails

Running == pc \notin {"done", "failed"}

Vaultwarden ==
    \E p \in Paths : Rewrite(p) \/ Truncate(p) \/ Replace(p) \/ MakeDir(p) \/ Remove(p)

\* What vaultwarden does once the walk is over concerns nobody here.
Over == ~Running /\ UNCHANGED vars

Next == WalkStep \/ (Running /\ Vaultwarden) \/ Over

Spec == Init /\ [][Next]_vars

-----------------------------------------------------------------------------
(* Properties.                                                             *)

\* The size in every header is the number of blocks that follow it, or the
\* rest of the archive could not be read.
TarIntact == \A k \in DOMAIN archive : archive[k].size = archive[k].len

\* What is archived of a file is what the file held at one instant between
\* opening it and checking it again, not a mixture of two versions.
EntryWhole == \A k \in DOMAIN archive : archive[k].whole

\* A walk that finishes has archived every file that nobody touched, once,
\* whatever else changed around it; the database and its sidecars never.
QuietFilesArchived ==
    pc = "done" =>
        \A p \in (Files \cap InitPaths) \ touched :
            Cardinality({k \in DOMAIN archive : archive[k].path = p})
                = IF p \in Skipped THEN 0 ELSE 1

\* Entries come in depth-first name order and none comes twice, even when
\* directories change while they are being walked.
EntriesInOrder ==
    \A j, k \in DOMAIN archive : j < k => archive[j].path < archive[k].path

-----------------------------------------------------------------------------
(* The inductive invariant behind them.                                    *)

\* The walk is at a path: cur.
Visiting == pc \in {"dir", "open", "fstat", "copy", "check"}

\* The clock is no further than the changes, no file is from the future.
Clocked == clock <= changes /\ \A i \in Inodes : mtime[i] <= clock

\* No two names share an inode, and none but cur the open one.
Linked ==
    /\ OwnInodes(ino)
    /\ pc \in {"fstat", "copy", "check"} => \A q \in Files : ino[q] = fd => q = cur

\* What was streamed is what the open file holds from its start, unless the
\* path has changed, and then its modification time tells.
Untouched ==
    /\ ino[cur] = fd /\ mtime[fd] = opened.mtime
    /\ blocks[fd] \in instants /\ Len(blocks[fd]) = opened.len
    /\ Len(copied) <= opened.len /\ \A k \in DOMAIN copied : copied[k] = blocks[fd][k]
    /\ pc = "check" => Len(copied) = opened.len

Streamed ==
    /\ pc = "fstat" => ino[cur] = fd \/ mtime[ino[cur]] > mtime[fd]
    /\ pc \in {"copy", "check"} => Untouched \/ mtime[ino[cur]] > opened.mtime
    /\ TarIntact /\ EntryWhole

\* The stack yields paths in ascending order, none of them inside another or
\* inside cur, and what is archived comes before all that is still to visit.
Ordered ==
    /\ pc = "list" => stack = <<>> /\ archive = <<>>
    /\ pc = "done" => stack = <<>>
    /\ \A j, k \in DOMAIN stack :
          j < k => stack[k] < stack[j] /\ Parent[stack[j]] < stack[k]
    /\ Visiting => \A k \in DOMAIN stack : cur < stack[k] /\ Parent[stack[k]] < cur
    /\ \A j \in DOMAIN archive : \A k \in DOMAIN stack : archive[j].path < stack[k]
    /\ Visiting => \A j \in DOMAIN archive : archive[j].path < cur
    /\ EntriesInOrder

\* What exists is in a directory that exists; what was never touched exists.
Rooted ==
    /\ \A p \in exists : Parent[p] \in exists \cup {0}
    /\ InitPaths \ touched \subseteq exists

\* The database is nowhere on the walk's way.
NoDatabase ==
    /\ \A k \in DOMAIN stack : stack[k] \notin Skipped
    /\ Visiting => cur \notin Skipped
    /\ \A k \in DOMAIN archive : archive[k].path \notin Skipped

\* The paths in and below d.
Subtree ==
    [d \in Paths |-> {p \in Paths : \A S \in SUBSET Paths :
                         d \in S /\ (\A c \in Paths : Parent[c] \in S => c \in S) => p \in S}]

\* The walk has archived p, or will come to it.
Archived(p) == \E k \in DOMAIN archive : archive[k].path = p
Pending(p) ==
    \/ \E k \in DOMAIN stack : p \in Subtree[stack[k]]
    \/ Visiting /\ p \in Subtree[cur]

Reached ==
    pc \notin {"list", "failed"} =>
        \A p \in (Files \cap InitPaths) \ (touched \cup Skipped) : Archived(p) \/ Pending(p)

\* Everything the walk relies on while the directory changes; what it streams
\* can be trusted only when the clock tells any two changes apart.
WalkInv ==
    Clocked /\ Linked /\ (FineClock => Streamed) /\ Ordered /\ Rooted /\ NoDatabase /\ Reached
=============================================================================
