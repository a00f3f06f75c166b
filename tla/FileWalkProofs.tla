--------------------------- MODULE FileWalkProofs ---------------------------
(***************************************************************************)
(* What holds of FileWalk for any directory tree, of any size and depth,   *)
(* and any changes vaultwarden makes to it in the middle of the walk.  What*)
(* the streamed contents are worth depends on the clock (FineClock); which *)
(* files are streamed, and in which order, does not.                       *)
(***************************************************************************)
EXTENDS FileWalk, FiniteSetTheorems, SequenceTheorems, TLAPS

-----------------------------------------------------------------------------
(* Types.                                                                  *)

LEMMA PathsAreNumbers == Paths \subseteq Nat \ {0} /\ 0 \notin Paths /\ IsFiniteSet(Paths)
  BY PathsAssumption

LEMMA Bounds == MaxLen \in Nat \ {0} /\ MaxWrites \in Nat /\ FineClock \in BOOLEAN
  BY BoundsAssumption

\* A file's contents are a sequence of at most MaxLen writes.
LEMMA BlocksAre ==
  \A b : b \in Blocks <=> b \in Seq(0..MaxWrites) /\ Len(b) <= MaxLen
  <1>1. ASSUME NEW b \in Blocks PROVE b \in Seq(0..MaxWrites) /\ Len(b) <= MaxLen
    <2>1. PICK n \in 0..MaxLen : b \in [1..n -> 0..MaxWrites]
      BY DEF Blocks
    <2>2. n \in Nat /\ n <= MaxLen
      BY <2>1, Bounds
    <2> DEFINE W == 0..MaxWrites
    <2> HIDE DEF W
    <2>3. b \in [1..n -> W]
      BY <2>1 DEF W
    <2>4. b \in Seq(W)
      BY <2>2, <2>3, SeqDef
    <2>5. Len(b) = n
      <3>1. DOMAIN b = 1..n /\ DOMAIN b = 1..Len(b) /\ Len(b) \in Nat
        BY <2>3, <2>4, LenProperties
      <3> QED
        BY <2>2, <3>1
    <2> QED
      BY <2>2, <2>4, <2>5 DEF W
  <1>2. ASSUME NEW b \in Seq(0..MaxWrites), Len(b) <= MaxLen PROVE b \in Blocks
    <2>1. Len(b) \in 0..MaxLen /\ b \in [1..Len(b) -> 0..MaxWrites]
      BY <1>2, Bounds
    <2> QED
      BY <2>1 DEF Blocks
  <1> QED
    BY <1>1, <1>2

LEMMA InitInodes == InitIno \in [Files -> Inodes] /\ OwnInodes(InitIno)
  BY InodesAssumption DEF InitIno

\* A directory's entries, once each and the last name first.
LEMMA ListsAre ==
  ASSUME NEW S \in SUBSET Paths, NEW s \in Descending(S)
  PROVE  /\ s \in Seq(S)
         /\ \A p \in S : \E k \in DOMAIN s : s[k] = p
         /\ \A j, k \in DOMAIN s : j < k => s[j] > s[k]
  <1>1. Cardinality(S) \in Nat
    BY PathsAreNumbers, FS_Subset, FS_CardinalityType
  <1> QED
    BY <1>1 DEF Descending, Lists

\* What push_children does to the stack.
LEMMA PushDoes ==
  ASSUME stack \in Seq(Paths), exists \subseteq Paths, NEW d, PushChildren(d)
  PROVE  /\ stack' \in Seq(Paths)
         /\ Len(stack) <= Len(stack')
         /\ \A k \in DOMAIN stack : k \in DOMAIN stack' /\ stack'[k] = stack[k]
         /\ \A k \in DOMAIN stack' \ DOMAIN stack : stack'[k] \in Children(d) \ Skipped
         /\ \A j, k \in DOMAIN stack' \ DOMAIN stack : j < k => stack'[j] > stack'[k]
         /\ \A p \in Children(d) \ Skipped : \E k \in DOMAIN stack' : stack'[k] = p
  <1> DEFINE C == Children(d) \ Skipped
  <1>1. C \in SUBSET Paths
    BY DEF Children
  <1>2. PICK s \in Descending(C) : stack' = stack \o s
    BY DEF PushChildren
  <1>3. /\ s \in Seq(C)
        /\ \A p \in C : \E k \in DOMAIN s : s[k] = p
        /\ \A j, k \in DOMAIN s : j < k => s[j] > s[k]
    BY <1>1, ListsAre
  <1> HIDE DEF C
  <1>4. /\ stack' \in Seq(Paths) /\ Len(stack') = Len(stack) + Len(s)
        /\ \A k \in 1..Len(stack) : stack'[k] = stack[k]
        /\ \A k \in 1..Len(s) : stack'[Len(stack) + k] = s[k]
    BY <1>1, <1>2, <1>3
  <1>5. ASSUME NEW k \in DOMAIN stack' \ DOMAIN stack
        PROVE  k - Len(stack) \in DOMAIN s /\ stack'[k] = s[k - Len(stack)]
    <2>1. k \in Nat /\ Len(stack) < k /\ k <= Len(stack) + Len(s)
      BY <1>4
    <2>2. k - Len(stack) \in 1..Len(s) /\ k = Len(stack) + (k - Len(stack))
      BY <1>3, <2>1
    <2> QED
      BY <1>3, <1>4, <2>2
  <1>6. \A k \in DOMAIN stack' \ DOMAIN stack : stack'[k] \in C
    BY <1>3, <1>5
  <1>7. ASSUME NEW j \in DOMAIN stack' \ DOMAIN stack, NEW k \in DOMAIN stack' \ DOMAIN stack,
               j < k
        PROVE  stack'[j] > stack'[k]
    <2>1. j \in Int /\ k \in Int /\ Len(stack) \in Int
      BY <1>4
    <2>2. j - Len(stack) < k - Len(stack)
      BY <1>7, <2>1
    <2> QED
      BY <1>3, <1>5, <2>2
  <1>8. ASSUME NEW p \in C PROVE \E k \in DOMAIN stack' : stack'[k] = p
    <2>1. PICK k \in DOMAIN s : s[k] = p
      BY <1>3, <1>8
    <2>2. k \in 1..Len(s) /\ Len(s) \in Nat /\ Len(stack) \in Nat
      BY <1>3, <2>1
    <2>3. Len(stack) + k \in 1..Len(stack')
      BY <1>4, <2>2
    <2> QED
      BY <1>4, <2>1, <2>2, <2>3
  <1>9. Len(stack) <= Len(stack')
    BY <1>3, <1>4
  <1>10. \A k \in DOMAIN stack : k \in DOMAIN stack' /\ stack'[k] = stack[k]
    BY <1>4, <1>9
  <1> QED
    BY <1>4, <1>6, <1>7, <1>8, <1>9, <1>10 DEF C

\* What popping does to it.
LEMMA PopDoes ==
  ASSUME stack \in Seq(Paths), stack # <<>>
  PROVE  /\ Popped \in Seq(Paths) /\ Len(Popped) = Len(stack) - 1
         /\ Len(stack) \in DOMAIN stack /\ Top = stack[Len(stack)] /\ Top \in Paths
         /\ \A k \in DOMAIN Popped :
               k \in DOMAIN stack /\ k < Len(stack) /\ Popped[k] = stack[k]
         /\ \A k \in DOMAIN stack : k \in DOMAIN Popped \/ k = Len(stack)
  <1>1. Len(stack) \in Nat \ {0} /\ DOMAIN stack = 1..Len(stack)
    BY EmptySeq, LenProperties
  <1>2. Popped \in Seq(Paths) /\ Len(Popped) = Len(stack) - 1
        /\ \A k \in 1..(Len(stack) - 1) : Popped[k] = stack[k]
    BY <1>1 DEF Popped
  <1>3. DOMAIN Popped = 1..(Len(stack) - 1)
    BY <1>2
  <1> QED
    BY <1>1, <1>2, <1>3 DEF Top

\* A write leaves a sequence of blocks behind, in the inode that p names, and
\* stamps it with the time of the change.
Writes(p, new) ==
    /\ p \in exists \cap Files /\ Change(p)
    /\ new \in Blocks
    /\ blocks' = [blocks EXCEPT ![ino[p]] = new]
    /\ Witness(ino[p], new)
    /\ mtime' = [mtime EXCEPT ![ino[p]] = clock']
    /\ UNCHANGED <<exists, ino>> /\ WalkStays

LEMMA WriteDoes ==
  ASSUME TypeOK, NEW p \in Paths, Rewrite(p) \/ Truncate(p)
  PROVE  \E new : Writes(p, new)
  <1> DEFINE b == blocks[ino[p]]
  <1>1. p \in Files /\ ino[p] \in Inodes /\ b \in Blocks
    BY DEF Rewrite, Truncate, TypeOK
  <1>2. b \in Seq(0..MaxWrites) /\ Len(b) <= MaxLen /\ Len(b) \in Nat
    BY <1>1, BlocksAre
  <1>3. CASE Rewrite(p)
    <2> DEFINE Size(k) == IF k > Len(b) THEN k ELSE Len(b)
               New(k) == [j \in 1..Size(k) |-> IF j = k THEN changes' ELSE b[j]]
    <2>1. PICK k \in 1..MaxLen :
             /\ k <= Len(b) + 1
             /\ blocks' = [blocks EXCEPT ![ino[p]] = New(k)]
             /\ Witness(ino[p], New(k))
      BY <1>3 DEF Rewrite
    <2>2. k \in Nat /\ Size(k) \in 0..MaxLen /\ Size(k) <= Len(b) + 1
      BY <1>2, <2>1, Bounds
    <2>3. changes' \in 0..MaxWrites
      BY <1>3, Bounds DEF Rewrite, Change, TypeOK
    <2>4. ASSUME NEW j \in 1..Size(k), j # k PROVE b[j] \in 0..MaxWrites
      <3>1. j \in 1..Len(b)
        BY <1>2, <2>1, <2>2, <2>4
      <3> QED
        BY <1>2, <3>1, ElementOfSeq
    <2>5. New(k) \in [1..Size(k) -> 0..MaxWrites]
      <3> HIDE DEF Size, b
      <3> QED
        BY <2>3, <2>4
    <2>6. New(k) \in Blocks
      <3> HIDE DEF New, Size
      <3> QED
        BY <2>2, <2>5 DEF Blocks
    <2>7. Writes(p, New(k))
      <3> HIDE DEF New
      <3> QED
        BY <1>3, <2>1, <2>6 DEF Rewrite, Writes
    <2> QED
      BY <2>7
  <1>4. CASE Truncate(p)
    <2>1. PICK n \in 0..MaxLen :
             /\ n < Len(b)
             /\ blocks' = [blocks EXCEPT ![ino[p]] = SubSeq(b, 1, n)]
             /\ Witness(ino[p], SubSeq(b, 1, n))
      BY <1>4 DEF Truncate
    <2>2. SubSeq(b, 1, n) \in Seq(0..MaxWrites) /\ Len(SubSeq(b, 1, n)) = n
      <3> HIDE DEF b
      <3> DEFINE W == 0..MaxWrites
      <3>1. b \in Seq(W)
        BY <1>2
      <3> HIDE DEF W
      <3>2. n \in Nat /\ n <= Len(b)
        BY <1>2, <2>1, Bounds
      <3>3. SubSeq(b, 1, n) \in Seq(W) /\ Len(SubSeq(b, 1, n)) = n
        BY <1>2, <3>1, <3>2
      <3> QED
        BY <3>3 DEF W
    <2>3. SubSeq(b, 1, n) \in Blocks
      <3> DEFINE c == SubSeq(b, 1, n)
      <3>1. c \in Seq(0..MaxWrites) /\ Len(c) <= MaxLen
        BY <2>1, <2>2, Bounds
      <3> HIDE DEF c
      <3>2. c \in Blocks
        BY <3>1, BlocksAre
      <3> QED
        BY <3>2 DEF c
    <2>4. Writes(p, SubSeq(b, 1, n))
      BY <1>4, <2>1, <2>3 DEF Truncate, Writes
    <2> QED
      BY <2>4
  <1> QED
    BY <1>3, <1>4

LEMMA ClockedStep ==
  ASSUME TypeOK, Clocked, NEW p \in Paths, Change(p)
  PROVE  /\ changes' \in 0..MaxWrites /\ touched' \subseteq Paths
         /\ clock' \in Times /\ clock <= clock' /\ clock' <= changes'
         /\ FineClock => clock < clock'
  <1>1. clock \in Nat /\ changes \in Nat /\ clock <= changes /\ changes < MaxWrites
    BY Bounds DEF TypeOK, Times, Clocked, Change
  <1>2. changes' = changes + 1 /\ touched' = touched \cup {p}
        /\ (clock' = clock + 1 \/ (~FineClock /\ clock' = clock))
    BY Bounds DEF Change
  <1> QED
    BY <1>1, <1>2, Bounds DEF TypeOK, Times

\* TypeOK in two halves: the directory, and the walk through it.
DirOK ==
    /\ exists \subseteq Paths
    /\ ino \in [Files -> Inodes]
    /\ blocks \in [Inodes -> Blocks]
    /\ mtime \in [Inodes -> Times]
    /\ clock \in Times /\ changes \in 0..MaxWrites
    /\ touched \subseteq Paths

Entry == [path : Files, size : 0..MaxLen, len : 0..MaxLen, whole : BOOLEAN]

WalkOK ==
    /\ pc \in {"list", "pop", "dir", "open", "fstat", "copy", "check", "done", "failed"}
    /\ stack \in Seq(Paths)
    /\ cur \in Paths \cup {0} /\ fd \in Inodes \cup {0}
    /\ pc = "dir" => cur \in DirPaths
    /\ pc \in {"open", "fstat", "copy", "check"} => cur \in Files
    /\ pc \in {"fstat", "copy", "check"} => fd \in Inodes
    /\ statLen \in 0..MaxLen
    /\ opened \in [len : 0..MaxLen, mtime : Times]
    /\ copied \in Seq(0..MaxWrites) /\ Len(copied) <= MaxLen
    /\ instants \subseteq Blocks
    /\ archive \in Seq(Entry)

LEMMA Halves == TypeOK <=> DirOK /\ WalkOK
  BY DEF TypeOK, DirOK, WalkOK, Entry

LEMMA TypeInit == Init => TypeOK /\ Clocked
  <1> SUFFICES ASSUME Init PROVE TypeOK /\ Clocked
    OBVIOUS
  <1>1. 0 \in Times /\ 0 \in 0..MaxLen /\ 0 \in 0..MaxWrites
    BY Bounds DEF Times
  <1>2. [k \in 1..(MaxLen - 1) |-> 0] \in Blocks
    <2>1. MaxLen - 1 \in 0..MaxLen
      BY Bounds
    <2>2. [k \in 1..(MaxLen - 1) |-> 0] \in [1..(MaxLen - 1) -> 0..MaxWrites]
      BY <1>1
    <2> QED
      BY <2>1, <2>2 DEF Blocks
  <1>3. DirOK
    BY <1>1, <1>2, InitInodes, InitAssumption DEF Init, DirOK
  <1>4. WalkOK
    <2>1. <<>> \in Seq(Paths) /\ <<>> \in Seq(0..MaxWrites) /\ <<>> \in Seq(Entry)
          /\ Len(<<>>) = 0
      BY EmptySeq
    <2>2. opened \in [len : 0..MaxLen, mtime : Times]
      BY <1>1 DEF Init
    <2> QED
      BY <1>1, <2>1, <2>2, Bounds DEF Init, WalkOK
  <1>5. Clocked
    BY DEF Init, Clocked
  <1> QED
    BY <1>3, <1>4, <1>5, Halves

\* The content of a file, as a sequence.
LEMMA Contents ==
  ASSUME DirOK, NEW i \in Inodes
  PROVE  blocks[i] \in Seq(0..MaxWrites) /\ Len(blocks[i]) \in 0..MaxLen
  <1>1. blocks[i] \in Blocks
    BY DEF DirOK
  <1>2. blocks[i] \in Seq(0..MaxWrites) /\ Len(blocks[i]) <= MaxLen
    BY <1>1, BlocksAre
  <1> QED
    BY <1>2, Bounds

LEMMA WalkTypeStep ==
  ASSUME DirOK, WalkOK, WalkStep
  PROVE  UNCHANGED dirVars /\ WalkOK'
  <1>1. ASSUME Fail PROVE UNCHANGED dirVars /\ WalkOK'
    BY <1>1 DEF Fail, WalkOK
  <1>2. CASE PopGone \/ ReadDirGone \/ OpenGone \/ FstatChanged \/ Reject \/ CallFails
    BY <1>1, <1>2 DEF PopGone, ReadDirGone, OpenGone, FstatChanged, Reject, CallFails
  <1>3. CASE ListRoot \/ ReadDir
    <2>1. PICK d : PushChildren(d)
      BY <1>3 DEF ListRoot, ReadDir
    <2>2. stack' \in Seq(Paths)
      BY <2>1, PushDoes DEF DirOK, WalkOK
    <2> QED
      BY <1>3, <2>2 DEF ListRoot, ReadDir, WalkOK
  <1>4. CASE Pop
    <2>1. Popped \in Seq(Paths) /\ Top \in Paths
      BY <1>4, PopDoes DEF Pop, WalkOK
    <2>2. statLen' \in 0..MaxLen
      <3>1. CASE Top \in Files
        BY <1>4, <3>1, Contents DEF Pop, DirOK
      <3>2. CASE Top \notin Files
        BY <1>4, <3>2 DEF Pop, WalkOK
      <3> QED
        BY <3>1, <3>2
    <2>3. /\ pc' \in {"dir", "pop", "open"} /\ cur' = Top /\ stack' = Popped
          /\ pc' = "dir" => Top \in DirPaths
          /\ pc' = "open" => Top \in Files
          /\ UNCHANGED <<dirVars, fd, opened, copied, instants, archive>>
      BY <1>4, <2>1 DEF Pop, Visit, Files
    <2> QED
      BY <2>1, <2>2, <2>3 DEF WalkOK
  <1>5. CASE Open
    BY <1>5 DEF Open, WalkOK, DirOK
  <1>6. CASE Fstat
    <2>1. fd \in Inodes
      BY <1>6 DEF Fstat, WalkOK
    <2>2. opened' \in [len : 0..MaxLen, mtime : Times] /\ instants' \subseteq Blocks
      BY <1>6, <2>1, Contents DEF Fstat, DirOK
    <2>3. copied' \in Seq(0..MaxWrites) /\ Len(copied') <= MaxLen
      <3>1. <<>> \in Seq(0..MaxWrites) /\ Len(<<>>) = 0
        BY EmptySeq
      <3> QED
        BY <1>6, <3>1, Bounds DEF Fstat
    <2> QED
      BY <1>6, <2>1, <2>2, <2>3 DEF Fstat, WalkOK
  <1>7. CASE ReadBlock
    <2>1. fd \in Inodes /\ copied \in Seq(0..MaxWrites) /\ Len(copied) < Len(blocks[fd])
          /\ copied' = Append(copied, blocks[fd][Len(copied) + 1])
      BY <1>7 DEF ReadBlock, WalkOK
    <2>2. blocks[fd] \in Seq(0..MaxWrites) /\ Len(blocks[fd]) \in 0..MaxLen
      BY <2>1, Contents
    <2>3. Len(copied) \in Nat /\ Len(copied) + 1 \in 1..Len(blocks[fd])
      BY <2>1, <2>2, LenProperties, Bounds
    <2>4. blocks[fd][Len(copied) + 1] \in 0..MaxWrites
      BY <2>2, <2>3, ElementOfSeq
    <2>5. copied' \in Seq(0..MaxWrites) /\ Len(copied') = Len(copied) + 1
      <3> DEFINE e == blocks[fd][Len(copied) + 1]
                 W == 0..MaxWrites
      <3>1. copied \in Seq(W) /\ e \in W /\ copied' = Append(copied, e)
        BY <2>1, <2>4
      <3> HIDE DEF e, W
      <3>2. copied' \in Seq(W) /\ Len(copied') = Len(copied) + 1
        BY <3>1
      <3> QED
        BY <3>2 DEF W
    <2>6. Len(copied') <= MaxLen
      BY <2>2, <2>3, <2>5, Bounds
    <2> QED
      BY <1>7, <2>5, <2>6 DEF ReadBlock, WalkOK
  <1>8. CASE ReadEof \/ Finish
    BY <1>8 DEF ReadEof, Finish, WalkOK
  <1>9. CASE Accept
    <2> DEFINE e == [path |-> cur, size |-> opened.len,
                     len |-> Len(copied), whole |-> copied \in instants]
    <2>1. Len(copied) \in 0..MaxLen
      BY LenProperties, Bounds DEF WalkOK
    <2>2. e \in Entry
      BY <1>9, <2>1 DEF Accept, WalkOK, Entry
    <2>3. archive' \in Seq(Entry)
      <3>1. archive' = Append(archive, e)
        BY <1>9 DEF Accept
      <3> HIDE DEF e
      <3> QED
        BY <2>2, <3>1 DEF WalkOK
    <2>4. <<>> \in Seq(0..MaxWrites) /\ Len(<<>>) = 0
      BY EmptySeq
    <2>5. 0 \in Times /\ 0 \in 0..MaxLen
      BY Bounds DEF Times
    <2>6. opened' \in [len : 0..MaxLen, mtime : Times]
      BY <1>9, <2>5 DEF Accept
    <2>7. copied' \in Seq(0..MaxWrites) /\ Len(copied') <= MaxLen
      BY <1>9, <2>4, Bounds DEF Accept
    <2> HIDE DEF e
    <2> QED
      BY <1>9, <2>3, <2>5, <2>6, <2>7 DEF Accept, WalkOK
  <1> QED
    BY <1>2, <1>3, <1>4, <1>5, <1>6, <1>7, <1>8, <1>9 DEF WalkStep

LEMMA DirTypeStep ==
  ASSUME DirOK, WalkOK, Clocked, Vaultwarden
  PROVE  WalkStays /\ DirOK' /\ WalkOK' /\ Clocked'
  <1>0. TypeOK
    BY Halves
  <1>1. PICK p \in Paths : Rewrite(p) \/ Truncate(p) \/ Replace(p) \/ MakeDir(p) \/ Remove(p)
    BY DEF Vaultwarden
  <1>2. Change(p) /\ WalkStays
    BY <1>1 DEF Rewrite, Truncate, Replace, MakeDir, Remove
  <1>3. /\ changes' \in 0..MaxWrites /\ touched' \subseteq Paths
        /\ clock' \in Times /\ clock <= clock' /\ clock' <= changes'
    BY <1>0, <1>2, ClockedStep
  <1>4. \A i \in Inodes : mtime[i] <= clock' /\ mtime[i] \in Times
    BY <1>3, Bounds DEF Clocked, DirOK, Times
  <1>5. ASSUME instants' \subseteq Blocks PROVE WalkOK'
    BY <1>2, <1>5 DEF WalkStays, WalkOK
  <1>6. CASE Rewrite(p) \/ Truncate(p)
    <2>1. PICK new : Writes(p, new)
      BY <1>0, <1>6, WriteDoes
    <2>2. p \in Files /\ ino[p] \in Inodes /\ new \in Blocks
      BY <2>1 DEF Writes, DirOK
    <2>3. /\ blocks' = [blocks EXCEPT ![ino[p]] = new]
          /\ mtime' = [mtime EXCEPT ![ino[p]] = clock']
          /\ UNCHANGED <<exists, ino>>
      BY <2>1 DEF Writes
    <2>4. instants' \subseteq Blocks
      BY <2>1, <2>2 DEF Writes, Witness, WalkOK
    <2>5. DirOK'
      BY <1>3, <2>2, <2>3 DEF DirOK
    <2>6. Clocked'
      BY <1>3, <1>4, <2>2, <2>3, Bounds DEF Clocked, DirOK, Times
    <2> QED
      BY <1>2, <1>5, <2>4, <2>5, <2>6
  <1>7. CASE Replace(p)
    <2>1. PICK i \in Inodes \ {ino[q] : q \in Files}, n \in 1..MaxLen :
             /\ ino' = [ino EXCEPT ![p] = i]
             /\ blocks' = [blocks EXCEPT ![i] = [j \in 1..n |-> changes']]
             /\ mtime' = [mtime EXCEPT ![i] = clock']
      BY <1>7 DEF Replace
    <2>2. p \in Files /\ exists' = exists \cup {p} /\ instants' = instants
      BY <1>7 DEF Replace
    <2>3. [j \in 1..n |-> changes'] \in Blocks
      <3>1. n \in 0..MaxLen
        BY Bounds
      <3>2. [j \in 1..n |-> changes'] \in [1..n -> 0..MaxWrites]
        BY <1>3
      <3> QED
        BY <3>1, <3>2 DEF Blocks
    <2>4. DirOK'
      <3> DEFINE new == [j \in 1..n |-> changes']
      <3> HIDE DEF new
      <3>1. new \in Blocks /\ blocks' = [blocks EXCEPT ![i] = new]
        BY <2>1, <2>3 DEF new
      <3>2. blocks' \in [Inodes -> Blocks]
        BY <3>1 DEF DirOK
      <3>3. ino' \in [Files -> Inodes] /\ mtime' \in [Inodes -> Times]
        BY <1>3, <2>1, <2>2 DEF DirOK
      <3> QED
        BY <1>3, <2>2, <3>2, <3>3 DEF DirOK
    <2>5. Clocked'
      BY <1>3, <1>4, <2>1, Bounds DEF Clocked, DirOK, Times
    <2>6. WalkOK'
      BY <1>5, <2>2 DEF WalkOK
    <2> QED
      BY <1>2, <2>4, <2>5, <2>6
  <1>8. CASE MakeDir(p) \/ Remove(p)
    <2>1. UNCHANGED <<ino, blocks, mtime, instants>> /\ exists' \subseteq Paths
      BY <1>8 DEF MakeDir, Remove, DirOK
    <2>2. DirOK' /\ Clocked'
      BY <1>3, <1>4, <2>1 DEF DirOK, Clocked
    <2>3. WalkOK'
      BY <1>5, <2>1 DEF WalkOK
    <2> QED
      BY <1>2, <2>2, <2>3
  <1> QED
    BY <1>1, <1>6, <1>7, <1>8

LEMMA TypeStep == TypeOK /\ Clocked /\ [Next]_vars => TypeOK' /\ Clocked'
  <1> SUFFICES ASSUME TypeOK, Clocked, [Next]_vars PROVE TypeOK' /\ Clocked'
    OBVIOUS
  <1>1. DirOK /\ WalkOK
    BY Halves
  <1>2. CASE WalkStep
    <2>1. UNCHANGED dirVars /\ WalkOK'
      BY <1>1, <1>2, WalkTypeStep
    <2>2. DirOK' /\ Clocked'
      BY <1>1, <2>1 DEF dirVars, DirOK, Clocked
    <2> QED
      BY <2>1, <2>2 DEF TypeOK, DirOK, WalkOK, Entry
  <1>3. CASE Vaultwarden
    <2>1. DirOK' /\ WalkOK' /\ Clocked'
      BY <1>1, <1>3, DirTypeStep
    <2> QED
      BY <2>1 DEF TypeOK, DirOK, WalkOK, Entry
  <1>4. CASE UNCHANGED vars
    BY <1>4 DEF vars, dirVars, walkVars, TypeOK, Clocked
  <1> QED
    BY <1>2, <1>3, <1>4 DEF Next, Over

\* Every variable keeps its type; that a path whose contents are read is one
\* of a regular file, and that the clock never outruns the changes, with it.
THEOREM TypeCorrect == Spec => [](TypeOK /\ Clocked)
  BY TypeInit, TypeStep, PTL DEF Spec

-----------------------------------------------------------------------------
(* What is streamed.                                                       *)

\* The steps that visit no file, or give up, and those that leave the opened
\* file and what was read of it alone.
LEMMA Aside ==
  ASSUME WalkStep
  PROVE  \/ Open \/ Fstat \/ ReadBlock \/ ReadEof \/ Accept
         \/ /\ pc' \notin {"fstat", "copy", "check"}
            /\ UNCHANGED <<dirVars, archive>>
  BY DEF WalkStep, Fail, CallFails, ListRoot, Pop, PopGone, ReadDir, ReadDirGone, OpenGone,
         FstatChanged, Reject, Finish, Visit

LEMMA LinkedStep == TypeOK /\ Linked /\ [Next]_vars => Linked'
  <1> SUFFICES ASSUME TypeOK, Linked, [Next]_vars PROVE Linked'
    OBVIOUS
  <1> USE DEF dirVars, walkVars, vars
  <1>1. CASE WalkStep
    <2>1. CASE Open
      BY <2>1 DEF Open, Linked, OwnInodes, TypeOK
    <2>2. CASE Fstat \/ ReadBlock \/ ReadEof
      BY <2>2 DEF Fstat, ReadBlock, ReadEof, Linked, OwnInodes
    <2>3. CASE Accept
      BY <2>3 DEF Accept, Linked, OwnInodes
    <2>4. CASE pc' \notin {"fstat", "copy", "check"} /\ UNCHANGED <<dirVars, archive>>
      BY <2>4 DEF Linked, OwnInodes
    <2> QED
      BY <1>1, <2>1, <2>2, <2>3, <2>4, Aside
  <1>2. ASSUME NEW p \in Paths, Replace(p) PROVE Linked'
    <2>1. PICK i \in Inodes \ {ino[q] : q \in Files} : i # fd /\ ino' = [ino EXCEPT ![p] = i]
      BY <1>2 DEF Replace
    <2>2. p \in Files /\ UNCHANGED <<pc, cur, fd>>
      BY <1>2 DEF Replace, WalkStays
    <2> QED
      BY <2>1, <2>2 DEF Linked, OwnInodes, TypeOK
  <1>3. ASSUME NEW p \in Paths, Rewrite(p) \/ Truncate(p) \/ MakeDir(p) \/ Remove(p)
        PROVE  Linked'
    <2>1. UNCHANGED <<ino, pc, cur, fd>>
      BY <1>3 DEF Rewrite, Truncate, MakeDir, Remove, WalkStays
    <2> QED
      BY <2>1 DEF Linked, OwnInodes
  <1>4. CASE UNCHANGED vars
    BY <1>4 DEF Linked, OwnInodes
  <1> QED
    BY <1>1, <1>2, <1>3, <1>4 DEF Next, Over, Vaultwarden

LEMMA StreamedWalk ==
  ASSUME TypeOK, Streamed, WalkStep
  PROVE  Streamed'
  <1> USE DEF dirVars
  <1>0. DirOK
    BY Halves
  <1>1. CASE Open
    BY <1>1 DEF Open, Streamed, TarIntact, EntryWhole
  <1>2. CASE Fstat
    <2>1. /\ pc' = "copy" /\ copied' = <<>> /\ instants' = {blocks[fd]}
          /\ opened'.len = Len(blocks[fd]) /\ opened'.mtime = mtime[fd]
          /\ pc = "fstat" /\ UNCHANGED <<dirVars, cur, fd, archive>>
      BY <1>2 DEF Fstat
    <2>2. CASE ino[cur] = fd
      <3>1. fd \in Inodes
        BY <2>1 DEF TypeOK
      <3>2. Len(blocks[fd]) \in Nat
        BY <1>0, <3>1, Contents, Bounds
      <3>3. Len(<<>>) = 0 /\ DOMAIN <<>> = {}
        OBVIOUS
      <3>4. Untouched'
        BY <2>1, <2>2, <3>2, <3>3 DEF Untouched
      <3> QED
        BY <2>1, <3>4 DEF Streamed, TarIntact, EntryWhole
    <2>3. CASE mtime[ino[cur]] > mtime[fd]
      BY <2>1, <2>3 DEF Streamed, TarIntact, EntryWhole
    <2> QED
      BY <2>1, <2>2, <2>3 DEF Streamed
  <1>3. CASE ReadBlock
    <2>1. /\ pc = "copy" /\ Len(copied) < Len(blocks[fd])
          /\ copied' = Append(copied, blocks[fd][Len(copied) + 1])
          /\ UNCHANGED <<dirVars, pc, cur, fd, opened, instants, archive>>
      BY <1>3 DEF ReadBlock
    <2>2. ASSUME Untouched PROVE Untouched'
      <3>1. fd \in Inodes /\ copied \in Seq(0..MaxWrites)
        BY <2>1 DEF TypeOK
      <3>2. blocks[fd] \in Seq(0..MaxWrites) /\ Len(blocks[fd]) \in Nat
        BY <1>0, <3>1, Contents, Bounds
      <3>3. Len(copied) \in Nat
        BY <3>1
      <3> DEFINE e == blocks[fd][Len(copied) + 1]
                 n == Len(copied)
      <3>4. Len(copied') = n + 1 /\ DOMAIN copied' = 1..(n + 1)
            /\ copied'[n + 1] = e /\ \A k \in 1..n : copied'[k] = copied[k]
        <4>1. e \in 0..MaxWrites
          <5>1. Len(copied) + 1 \in 1..Len(blocks[fd])
            BY <2>1, <3>2, <3>3
          <5> QED
            BY <3>2, <5>1, ElementOfSeq
        <4> DEFINE W == 0..MaxWrites
        <4>2. copied \in Seq(W) /\ e \in W /\ copied' = Append(copied, e)
          BY <2>1, <3>1, <4>1
        <4> HIDE DEF e, W
        <4> QED
          BY <4>2
      <3>5. DOMAIN copied = 1..n
        BY <3>1
      <3>6. \A k \in DOMAIN copied' : copied'[k] = blocks'[fd'][k]
        <4>1. \A k \in 1..n : copied'[k] = blocks[fd][k]
          BY <2>2, <3>4, <3>5 DEF Untouched
        <4>2. \A k \in 1..(n + 1) : k \in 1..n \/ k = n + 1
          BY <3>3
        <4> QED
          BY <2>1, <3>4, <4>1, <4>2
      <3>7. Len(copied') <= opened.len
        BY <2>1, <2>2, <3>2, <3>3, <3>4 DEF Untouched
      <3> HIDE DEF e, n
      <3> QED
        BY <2>1, <2>2, <3>6, <3>7 DEF Untouched
    <2> QED
      BY <2>1, <2>2 DEF Streamed, TarIntact, EntryWhole
  <1>4. CASE ReadEof
    <2>1. /\ pc = "copy" /\ pc' = "check" /\ Len(copied) >= Len(blocks[fd])
          /\ UNCHANGED <<dirVars, cur, fd, opened, copied, instants, archive>>
      BY <1>4 DEF ReadEof
    <2>2. ASSUME Untouched PROVE Untouched'
      <3>1. fd \in Inodes /\ copied \in Seq(0..MaxWrites)
        BY <2>1 DEF TypeOK
      <3>2. Len(blocks[fd]) \in Nat /\ Len(copied) \in Nat
        BY <1>0, <3>1, Contents, LenProperties, Bounds
      <3> QED
        BY <2>1, <2>2, <3>2 DEF Untouched
    <2> QED
      BY <2>1, <2>2 DEF Streamed, TarIntact, EntryWhole
  <1>5. CASE Accept
    <2> DEFINE e == [path |-> cur, size |-> opened.len,
                     len |-> Len(copied), whole |-> copied \in instants]
    <2>1. /\ pc = "check" /\ pc' = "pop" /\ ~FileChanged
          /\ archive' = Append(archive, e) /\ UNCHANGED dirVars
      BY <1>5 DEF Accept
    <2>2. cur \in Files /\ fd \in Inodes /\ copied \in Seq(0..MaxWrites)
          /\ ino[cur] \in Inodes /\ archive \in Seq(Entry)
      BY <2>1 DEF TypeOK, Entry
    <2>3. mtime[ino[cur]] = opened.mtime /\ mtime[ino[cur]] \in Nat
      BY <2>1, <2>2, Bounds DEF FileChanged, TypeOK, Times
    <2>4. Untouched
      BY <2>1, <2>3 DEF Streamed
    <2>5. Len(copied) = opened.len /\ copied \in instants
      <3>1. blocks[fd] \in Seq(0..MaxWrites)
        BY <1>0, <2>2, Contents
      <3>2. Len(copied) = Len(blocks[fd]) /\ \A k \in 1..Len(copied) : copied[k] = blocks[fd][k]
        BY <2>1, <2>2, <2>4 DEF Untouched
      <3>3. copied = blocks[fd]
        BY <2>2, <3>1, <3>2, SeqEqual
      <3> QED
        BY <2>1, <2>4, <3>3 DEF Untouched
    <2>6. e.size = e.len /\ e.whole
      BY <2>5
    <2>7. \A k \in DOMAIN archive' : (k \in DOMAIN archive /\ archive'[k] = archive[k]) \/ archive'[k] = e
      <3>0. e \in Entry
        <4>1. Len(copied) \in 0..MaxLen
          BY LenProperties, Bounds DEF TypeOK
        <4> QED
          BY <2>2, <4>1 DEF TypeOK, Entry
      <3> HIDE DEF e
      <3> QED
        BY <2>1, <2>2, <3>0
    <2>8. TarIntact' /\ EntryWhole'
      <3> HIDE DEF e
      <3> QED
        BY <2>6, <2>7 DEF Streamed, TarIntact, EntryWhole
    <2> QED
      BY <2>1, <2>8 DEF Streamed
  <1>6. CASE pc' \notin {"fstat", "copy", "check"} /\ UNCHANGED <<dirVars, archive>>
    BY <1>6 DEF Streamed, TarIntact, EntryWhole
  <1> QED
    BY <1>1, <1>2, <1>3, <1>4, <1>5, <1>6, Aside

\* A change leaves the open file as it was, or gives the path a time past the
\* one noted at the opening.
LEMMA StreamedChange ==
  ASSUME TypeOK, Clocked, Linked, FineClock, Streamed, Vaultwarden
  PROVE  Streamed'
  <1>1. PICK p \in Paths : Rewrite(p) \/ Truncate(p) \/ Replace(p) \/ MakeDir(p) \/ Remove(p)
    BY DEF Vaultwarden
  <1>2. Change(p) /\ UNCHANGED <<pc, cur, fd, opened, copied, archive>>
    BY <1>1 DEF Rewrite, Truncate, Replace, MakeDir, Remove, WalkStays
  <1>3. clock < clock' /\ clock \in Nat /\ clock' \in Nat
    BY <1>2, ClockedStep, Bounds DEF TypeOK, Times
  <1>4. \A i \in Inodes : mtime[i] \in Nat /\ mtime[i] <= clock
    BY Bounds DEF TypeOK, Times, Clocked
  <1>5. pc \in {"fstat", "copy", "check"} =>
          /\ cur \in Files /\ ino[cur] \in Inodes /\ fd \in Inodes
          /\ mtime[ino[cur]] < clock' /\ mtime[fd] < clock'
          /\ mtime[ino[cur]] \in Nat /\ mtime[fd] \in Nat
    BY <1>3, <1>4 DEF TypeOK
  <1>6. pc \in {"copy", "check"} => opened.mtime < clock' /\ opened.mtime \in Nat
    BY <1>3, <1>4, <1>5, Bounds DEF Streamed, Untouched, TypeOK, Times
  <1>7. TarIntact' /\ EntryWhole'
    BY <1>2 DEF Streamed, TarIntact, EntryWhole
  <1> DEFINE Hidden == /\ ino'[cur] = ino[cur] /\ mtime'[ino[cur]] = mtime[ino[cur]]
                       /\ mtime'[fd] = mtime[fd] /\ blocks'[fd] = blocks[fd]
                       /\ instants' = instants
             Shown == mtime'[ino'[cur]] = clock'
  <1>8. ASSUME pc \in {"fstat", "copy", "check"} => Hidden
        PROVE  Streamed'
    BY <1>2, <1>5, <1>7, <1>8 DEF Streamed, Untouched
  <1>9. ASSUME Shown, pc = "fstat" => mtime'[fd] = mtime[fd] \/ ino'[cur] = fd
        PROVE  Streamed'
    BY <1>2, <1>5, <1>6, <1>7, <1>9 DEF Streamed
  <1>10. CASE Rewrite(p) \/ Truncate(p)
    <2>1. PICK new : Writes(p, new)
      BY <1>10, WriteDoes
    <2>2. /\ p \in Files /\ ino[p] \in Inodes
          /\ blocks' = [blocks EXCEPT ![ino[p]] = new]
          /\ mtime' = [mtime EXCEPT ![ino[p]] = clock']
          /\ ino[p] # fd => instants' = instants
          /\ ino' = ino
      BY <2>1 DEF Writes, Witness, TypeOK
    <2>3. CASE pc \notin {"fstat", "copy", "check"}
      BY <1>8, <2>3
    <2>4. CASE pc \in {"fstat", "copy", "check"} /\ p = cur
      <3>1. Shown
        BY <2>2, <2>4 DEF TypeOK
      <3>2. mtime'[fd] = mtime[fd] \/ ino'[cur] = fd
        BY <1>5, <2>2, <2>4 DEF TypeOK
      <3> QED
        BY <1>9, <3>1, <3>2
    <2>5. CASE pc \in {"fstat", "copy", "check"} /\ p # cur
      <3>1. ino[p] # fd /\ ino[p] # ino[cur]
        BY <1>5, <2>2, <2>5 DEF Linked, OwnInodes
      <3>2. Hidden
        BY <1>5, <2>2, <2>5, <3>1 DEF TypeOK
      <3> QED
        BY <1>8, <3>2
    <2> QED
      BY <2>3, <2>4, <2>5
  <1>11. CASE Replace(p)
    <2>1. PICK i \in Inodes \ {ino[q] : q \in Files}, n \in 1..MaxLen :
             /\ i # fd
             /\ ino' = [ino EXCEPT ![p] = i]
             /\ blocks' = [blocks EXCEPT ![i] = [j \in 1..n |-> changes']]
             /\ mtime' = [mtime EXCEPT ![i] = clock']
      BY <1>11 DEF Replace
    <2>2. p \in Files /\ instants' = instants
      BY <1>11 DEF Replace
    <2>3. CASE pc \notin {"fstat", "copy", "check"}
      BY <1>8, <2>3
    <2>4. CASE pc \in {"fstat", "copy", "check"} /\ p = cur
      <3>1. Shown /\ mtime'[fd] = mtime[fd]
        BY <1>5, <2>1, <2>2, <2>4 DEF TypeOK
      <3> QED
        BY <1>9, <3>1
    <2>5. CASE pc \in {"fstat", "copy", "check"} /\ p # cur
      <3>1. Hidden
        BY <1>5, <2>1, <2>2, <2>5 DEF TypeOK
      <3> QED
        BY <1>8, <3>1
    <2> QED
      BY <2>3, <2>4, <2>5
  <1>12. CASE MakeDir(p) \/ Remove(p)
    <2>1. Hidden
      BY <1>12 DEF MakeDir, Remove
    <2> QED
      BY <1>8, <2>1
  <1> QED
    BY <1>1, <1>10, <1>11, <1>12

\* With a clock that tells any two changes apart, the two looks at a file
\* catch whatever was done to it while it was streamed.
LEMMA StreamInv == FineClock /\ Spec => [](Clocked /\ Linked /\ Streamed)
  <1>1. Init => Linked /\ Streamed
    BY InitInodes DEF Init, Linked, Streamed, TarIntact, EntryWhole
  <1>2. CASE ~FineClock
    BY <1>2
  <1>3. CASE FineClock
    <2>1. ASSUME TypeOK, Clocked, Linked, Streamed, [Next]_vars PROVE Streamed'
      <3>1. CASE UNCHANGED vars
        BY <2>1, <3>1 DEF vars, dirVars, walkVars, Streamed, Untouched, TarIntact, EntryWhole
      <3> QED
        BY <1>3, <2>1, <3>1, StreamedWalk, StreamedChange DEF Next, Over
    <2>2. TypeOK /\ Clocked /\ Linked /\ Streamed /\ [Next]_vars => Streamed'
      BY <2>1
    <2> QED
      BY <1>1, <2>2, LinkedStep, TypeInit, TypeStep, PTL DEF Spec
  <1> QED
    BY <1>2, <1>3

\* "The tar record's size field must equal the bytes actually streamed, or
\* everything after this entry is unreadable": with such a clock it does, for
\* every entry and whatever vaultwarden writes, truncates and replaces between
\* the lstat, the open, the reads and the last look (files::write).
THEOREM ArchiveAlwaysReadable == FineClock /\ Spec => []TarIntact
  <1>1. Streamed => TarIntact
    BY DEF Streamed
  <1> QED
    BY <1>1, StreamInv, PTL

\* Every entry is a version that the file really had at one instant, never the
\* beginning of one and the end of another (file_changed).
THEOREM EntriesAlwaysWhole == FineClock /\ Spec => []EntryWhole
  <1>1. Streamed => EntryWhole
    BY DEF Streamed
  <1> QED
    BY <1>1, StreamInv, PTL

-----------------------------------------------------------------------------
(* Which files are streamed, and in which order.                           *)

\* The directory changes under the walk, but the walk does not move.
LEMMA ChangesOnly ==
  ASSUME Vaultwarden \/ UNCHANGED vars
  PROVE  UNCHANGED <<pc, stack, cur, archive>>
  BY DEF Vaultwarden, Rewrite, Truncate, Replace, MakeDir, Remove, WalkStays, vars, walkVars

\* The steps of the walk that neither push, pop nor archive.
LEMMA Elsewhere ==
  ASSUME WalkStep
  PROVE  \/ ListRoot \/ ReadDir \/ Pop \/ Accept
         \/ /\ UNCHANGED <<dirVars, stack, cur, archive>>
            /\ Visiting' => Visiting
            /\ pc' = "done" => stack = <<>>
            /\ pc' = "failed" \/ (pc # "list" /\ pc' # "list" /\ (Visiting => Visiting'))
  BY DEF WalkStep, Fail, CallFails, PopGone, ReadDirGone, Open, OpenGone, Fstat, FstatChanged,
         ReadBlock, ReadEof, Reject, Finish, Visiting, dirVars

LEMMA NumbersBelow ==
  /\ \A p \in Paths : p \in Nat /\ Parent[p] \in Nat /\ Parent[p] < p
  /\ \A p, q \in Paths : Parent[p] < q /\ q < p => Parent[p] <= Parent[q]
  /\ \A p \in Paths : Parent[p] \in DirPaths \cup {0}
  <1>1. \A p \in Paths : Parent[p] \in DirPaths \cup {0}
    BY ParentAssumption
  <1>2. Paths \subseteq Nat /\ DirPaths \subseteq Paths
    BY PathsAssumption, KindsAssumption
  <1>3. ASSUME NEW p \in Paths PROVE p \in Nat /\ Parent[p] \in Nat
    <2>1. p \in Nat
      BY <1>2
    <2>2. Parent[p] \in Paths \/ Parent[p] = 0
      BY <1>1, <1>2
    <2>3. CASE Parent[p] \in Paths
      BY <1>2, <2>1, <2>3
    <2>4. CASE Parent[p] = 0
      BY <2>1, <2>4
    <2> QED
      BY <2>1, <2>2, <2>3, <2>4
  <1> QED
    BY <1>1, <1>3, OrderAssumption

\* What stands on the stack and in the archive are paths.
LEMMA OnTheWay ==
  TypeOK =>
    /\ stack \in Seq(Paths) /\ DOMAIN stack = 1..Len(stack) /\ Len(stack) \in Nat
    /\ \A k \in DOMAIN stack : stack[k] \in Paths
    /\ \A k \in DOMAIN archive : archive[k].path \in Files
  <1> SUFFICES ASSUME TypeOK
               PROVE  /\ stack \in Seq(Paths)
                      /\ DOMAIN stack = 1..Len(stack) /\ Len(stack) \in Nat
                      /\ \A k \in DOMAIN stack : stack[k] \in Paths
                      /\ \A k \in DOMAIN archive : archive[k].path \in Files
    OBVIOUS
  <1>1. stack \in Seq(Paths) /\ archive \in Seq(Entry)
    BY DEF TypeOK, Entry
  <1>2. DOMAIN stack = 1..Len(stack) /\ Len(stack) \in Nat
        /\ DOMAIN archive = 1..Len(archive)
    BY <1>1, LenProperties
  <1>3. \A k \in DOMAIN archive : archive[k] \in Entry
    BY <1>1, <1>2, ElementOfSeq
  <1>4. \A k \in DOMAIN archive : archive[k].path \in Files
    BY <1>3 DEF Entry
  <1> QED
    BY <1>1, <1>2, <1>4, ElementOfSeq

\* Entries of d go on top of paths that are after d and not in d.
LEMMA OrderedPush ==
  ASSUME TypeOK, NEW d \in Paths \cup {0}, PushChildren(d),
         \A j, k \in DOMAIN stack :
            j < k => stack[k] < stack[j] /\ Parent[stack[j]] < stack[k],
         \A k \in DOMAIN stack : d < stack[k] /\ Parent[stack[k]] < d,
         \A j \in DOMAIN archive : archive[j].path < d
  PROVE  /\ \A j, k \in DOMAIN stack' :
               j < k => stack'[k] < stack'[j] /\ Parent[stack'[j]] < stack'[k]
         /\ \A j \in DOMAIN archive : \A k \in DOMAIN stack' : archive[j].path < stack'[k]
  <1>1. /\ stack' \in Seq(Paths) /\ stack \in Seq(Paths) /\ Len(stack) <= Len(stack')
        /\ \A k \in DOMAIN stack : k \in DOMAIN stack' /\ stack'[k] = stack[k]
        /\ \A k \in DOMAIN stack' \ DOMAIN stack : stack'[k] \in Children(d) \ Skipped
        /\ \A j, k \in DOMAIN stack' \ DOMAIN stack : j < k => stack'[j] > stack'[k]
    BY PushDoes DEF TypeOK
  <1>2. d \in Nat /\ \A k \in DOMAIN stack' : stack'[k] \in Paths /\ stack'[k] \in Nat
    <2>1. DOMAIN stack' = 1..Len(stack')
      BY <1>1, LenProperties
    <2>2. \A k \in DOMAIN stack' : stack'[k] \in Paths
      BY <1>1, <2>1, ElementOfSeq
    <2>3. Paths \subseteq Nat
      BY PathsAreNumbers
    <2>4. d \in Nat
      BY <2>3
    <2> QED
      BY <2>2, <2>3, <2>4
  <1>3. ASSUME NEW k \in DOMAIN stack' \ DOMAIN stack
        PROVE  Parent[stack'[k]] = d /\ d < stack'[k]
    <2>1. Parent[stack'[k]] = d
      BY <1>1 DEF Children
    <2> QED
      BY <1>2, <2>1, NumbersBelow
  <1>4. ASSUME NEW j \in DOMAIN stack, NEW k \in DOMAIN stack' \ DOMAIN stack
        PROVE  stack'[k] < stack'[j] /\ Parent[stack'[j]] < stack'[k]
    <2> DEFINE q == stack'[j]
               c == stack'[k]
    <2>1. q = stack[j] /\ q \in Paths /\ c \in Paths /\ Parent[c] = d /\ d < c
      BY <1>1, <1>2, <1>3
    <2>2. d < q /\ Parent[q] < d
      BY <2>1
    <2> HIDE DEF q, c
    <2>3. q \in Nat /\ c \in Nat /\ Parent[q] \in Nat
      BY <2>1, NumbersBelow
    <2>4. ~(q < c)
      BY <1>2, <2>1, <2>2, <2>3, NumbersBelow
    <2>5. q # c
      BY <1>2, <2>1, <2>2, <2>3
    <2>6. c < q /\ Parent[q] < c
      BY <1>2, <2>1, <2>2, <2>3, <2>4, <2>5
    <2> QED
      BY <2>6 DEF q, c
  <1>5. ASSUME NEW j \in DOMAIN stack', NEW k \in DOMAIN stack', j < k
        PROVE  stack'[k] < stack'[j] /\ Parent[stack'[j]] < stack'[k]
    <2>1. CASE k \in DOMAIN stack
      <3>1. j \in DOMAIN stack
        BY <1>1, <1>5, <2>1
      <3> QED
        BY <1>1, <1>5, <2>1, <3>1
    <2>2. CASE k \notin DOMAIN stack /\ j \in DOMAIN stack
      BY <1>4, <2>2
    <2>3. CASE k \notin DOMAIN stack /\ j \notin DOMAIN stack
      <3>1. stack'[j] > stack'[k] /\ Parent[stack'[j]] = d /\ d < stack'[k]
        BY <1>1, <1>3, <1>5, <2>3
      <3> QED
        BY <1>2, <3>1
    <2> QED
      BY <2>1, <2>2, <2>3
  <1>6. ASSUME NEW j \in DOMAIN archive, NEW k \in DOMAIN stack'
        PROVE  archive[j].path < stack'[k]
    <2>1. archive[j].path \in Nat /\ archive[j].path < d
      BY OnTheWay, PathsAreNumbers DEF Files
    <2>2. d < stack'[k]
      BY <1>1, <1>3
    <2> QED
      BY <1>2, <2>1, <2>2
  <1> QED
    BY <1>5, <1>6

\* An archive with one entry more.
LEMMA AcceptDoes ==
  ASSUME TypeOK, Accept
  PROVE  /\ DOMAIN archive' = 1..(Len(archive) + 1) /\ DOMAIN archive = 1..Len(archive)
         /\ Len(archive) \in Nat
         /\ \A k \in DOMAIN archive : archive'[k] = archive[k]
         /\ archive'[Len(archive) + 1].path = cur
         /\ pc = "check" /\ pc' = "pop" /\ UNCHANGED <<dirVars, stack>>
  <1> DEFINE e == [path |-> cur, size |-> opened.len,
                   len |-> Len(copied), whole |-> copied \in instants]
  <1>1. archive' = Append(archive, e) /\ pc = "check" /\ pc' = "pop"
        /\ UNCHANGED <<dirVars, stack>>
    BY DEF Accept
  <1>2. e.path = cur
    OBVIOUS
  <1>3. Len(copied) \in 0..MaxLen /\ cur \in Files
    BY <1>1, LenProperties, Bounds DEF TypeOK
  <1>4. e \in Entry /\ archive \in Seq(Entry)
    BY <1>3 DEF TypeOK, Entry
  <1> HIDE DEF e
  <1>5. /\ DOMAIN archive' = 1..(Len(archive) + 1) /\ DOMAIN archive = 1..Len(archive)
        /\ Len(archive) \in Nat
        /\ \A k \in DOMAIN archive : archive'[k] = archive[k]
        /\ archive'[Len(archive) + 1] = e
    BY <1>1, <1>4
  <1> QED
    BY <1>1, <1>2, <1>5

LEMMA OrderedStep == TypeOK /\ Ordered /\ [Next]_vars => Ordered'
  <1> SUFFICES ASSUME TypeOK, Ordered, [Next]_vars PROVE Ordered'
    OBVIOUS
  <1>0. /\ stack \in Seq(Paths) /\ DOMAIN stack = 1..Len(stack) /\ Len(stack) \in Nat
        /\ \A k \in DOMAIN stack : stack[k] \in Paths
        /\ \A k \in DOMAIN archive : archive[k].path \in Files
    BY OnTheWay
  <1>1. CASE ListRoot
    <2>1. pc = "list" /\ pc' = "pop" /\ PushChildren(0) /\ UNCHANGED <<cur, archive>>
      BY <1>1 DEF ListRoot
    <2>2. stack = <<>> /\ archive = <<>> /\ DOMAIN stack = {} /\ DOMAIN archive = {}
      BY <2>1 DEF Ordered
    <2>3. /\ \A j, k \in DOMAIN stack' :
               j < k => stack'[k] < stack'[j] /\ Parent[stack'[j]] < stack'[k]
          /\ \A j \in DOMAIN archive : \A k \in DOMAIN stack' : archive[j].path < stack'[k]
      BY <2>1, <2>2, OrderedPush
    <2> QED
      BY <2>1, <2>3 DEF Ordered, Visiting, EntriesInOrder
  <1>2. CASE ReadDir
    <2>1. pc = "dir" /\ pc' = "pop" /\ PushChildren(cur) /\ UNCHANGED <<cur, archive>>
          /\ Visiting
      BY <1>2 DEF ReadDir, Visiting
    <2>2. /\ \A k \in DOMAIN stack : cur < stack[k] /\ Parent[stack[k]] < cur
          /\ \A j \in DOMAIN archive : archive[j].path < cur
          /\ \A j, k \in DOMAIN stack :
                j < k => stack[k] < stack[j] /\ Parent[stack[j]] < stack[k]
      BY <2>1 DEF Ordered
    <2>3. /\ \A j, k \in DOMAIN stack' :
               j < k => stack'[k] < stack'[j] /\ Parent[stack'[j]] < stack'[k]
          /\ \A j \in DOMAIN archive : \A k \in DOMAIN stack' : archive[j].path < stack'[k]
      BY <2>1, <2>2, OrderedPush DEF TypeOK
    <2> QED
      BY <2>1, <2>3 DEF Ordered, Visiting, EntriesInOrder
  <1>3. CASE Pop
    <2>1. /\ stack' = Popped /\ cur' = Top /\ archive' = archive /\ stack # <<>>
          /\ pc' \notin {"list", "done"}
      BY <1>3 DEF Pop, Visit
    <2>2. /\ Len(stack) \in DOMAIN stack /\ Top = stack[Len(stack)]
          /\ \A k \in DOMAIN Popped :
                k \in DOMAIN stack /\ k < Len(stack) /\ Popped[k] = stack[k]
      BY <1>0, <2>1, PopDoes
    <2>3. \A k \in DOMAIN stack' : cur' < stack'[k] /\ Parent[stack'[k]] < cur'
      BY <2>1, <2>2 DEF Ordered
    <2>4. \A j \in DOMAIN archive' : archive'[j].path < cur'
      BY <2>1, <2>2 DEF Ordered
    <2>5. \A j, k \in DOMAIN stack' :
             j < k => stack'[k] < stack'[j] /\ Parent[stack'[j]] < stack'[k]
      BY <2>1, <2>2 DEF Ordered
    <2>6. \A j \in DOMAIN archive' : \A k \in DOMAIN stack' : archive'[j].path < stack'[k]
      BY <2>1, <2>2 DEF Ordered
    <2> QED
      BY <2>1, <2>3, <2>4, <2>5, <2>6 DEF Ordered, EntriesInOrder
  <1>4. CASE Accept
    <2> DEFINE n == Len(archive) + 1
    <2>1. /\ DOMAIN archive' = 1..n /\ DOMAIN archive = 1..(n - 1) /\ n \in Nat \ {0}
          /\ \A k \in DOMAIN archive : archive'[k] = archive[k]
          /\ archive'[n].path = cur
          /\ pc = "check" /\ pc' = "pop" /\ stack' = stack
      BY <1>4, AcceptDoes
    <2>2. Visiting
      BY <2>1 DEF Visiting
    <2> HIDE DEF n
    <2>3. \A k \in 1..n : k \in 1..(n - 1) \/ k = n
      BY <2>1
    <2>4. \A j \in DOMAIN archive' : \A k \in DOMAIN stack' : archive'[j].path < stack'[k]
      BY <2>1, <2>2, <2>3 DEF Ordered
    <2>5. EntriesInOrder'
      <3> SUFFICES ASSUME NEW j \in 1..n, NEW k \in 1..n, j < k
                   PROVE  archive'[j].path < archive'[k].path
        BY <2>1 DEF EntriesInOrder
      <3>1. j \in 1..(n - 1)
        BY <2>1
      <3>2. CASE k \in 1..(n - 1)
        BY <2>1, <3>1, <3>2 DEF Ordered, EntriesInOrder
      <3>3. CASE k = n
        BY <2>1, <2>2, <3>1, <3>3 DEF Ordered
      <3> QED
        BY <2>3, <3>2, <3>3
    <2> QED
      BY <2>1, <2>4, <2>5 DEF Ordered, Visiting
  <1>5. ASSUME UNCHANGED <<stack, cur, archive>>, Visiting' => Visiting,
               pc' = "list" => pc = "list", pc' = "done" => stack = <<>>
        PROVE  Ordered'
    BY <1>5 DEF Ordered, EntriesInOrder
  <1>6. CASE Vaultwarden \/ UNCHANGED vars
    BY <1>5, <1>6, ChangesOnly DEF Visiting, Ordered
  <1> QED
    BY <1>1, <1>2, <1>3, <1>4, <1>5, <1>6, Elsewhere DEF Next, Over

\* Entries come in depth-first name order, and no path comes twice, in a tree
\* of any depth and whatever is created, replaced or removed in it while the
\* walk goes on (files::write's stack, push_children's reverse order).
THEOREM AlwaysInOrder == Spec => []EntriesInOrder
  <1>1. Init => Ordered
    <2>1. DOMAIN <<>> = {}
      OBVIOUS
    <2> QED
      BY <2>1 DEF Init, Ordered, Visiting, EntriesInOrder
  <1>2. Ordered => EntriesInOrder
    BY DEF Ordered
  <1> QED
    BY <1>1, <1>2, OrderedStep, TypeCorrect, PTL DEF Spec

-----------------------------------------------------------------------------
(* Which files nobody touched are in the archive.                          *)

\* A path is in its own subtree, and so is what has its parent there.
LEMMA SubtreeGrows ==
  ASSUME NEW d \in Paths
  PROVE  /\ d \in Subtree[d] /\ Subtree[d] \subseteq Paths
         /\ \A c \in Paths : Parent[c] \in Subtree[d] => c \in Subtree[d]
  BY DEF Subtree

\* Whatever holds d and all that has its parent in it holds d's subtree.
LEMMA SubtreeLeast ==
  ASSUME NEW d \in Paths, NEW S \in SUBSET Paths, d \in S,
         \A c \in Paths : Parent[c] \in S => c \in S
  PROVE  Subtree[d] \subseteq S
  BY DEF Subtree

\* What is below d, but is not d, is below an entry of d.
LEMMA ThroughEntry ==
  ASSUME NEW d \in Paths, NEW p \in Subtree[d], p # d
  PROVE  \E c \in Paths : Parent[c] = d /\ p \in Subtree[c]
  <1> DEFINE S == {d} \cup {q \in Paths : \E c \in Paths : Parent[c] = d /\ q \in Subtree[c]}
  <1>1. S \in SUBSET Paths /\ d \in S
    OBVIOUS
  <1>2. ASSUME NEW x \in Paths, Parent[x] \in S PROVE x \in S
    <2>1. CASE Parent[x] = d
      BY <2>1, SubtreeGrows
    <2>2. ASSUME NEW c \in Paths, Parent[c] = d, Parent[x] \in Subtree[c] PROVE x \in S
      BY <2>2, SubtreeGrows
    <2> QED
      BY <1>2, <2>1, <2>2
  <1>3. p \in S
    <2> HIDE DEF S
    <2> QED
      BY <1>1, <1>2, SubtreeLeast
  <1> QED
    BY <1>3

\* Everything is below an entry of the source.
LEMMA FromTheSource ==
  ASSUME NEW p \in Paths
  PROVE  \E c \in Paths : Parent[c] = 0 /\ p \in Subtree[c]
  <1> DEFINE S == {q \in Paths : \E c \in Paths : Parent[c] = 0 /\ q \in Subtree[c]}
  <1>1. ASSUME NEW x \in Paths, Parent[x] \in S \cup {0} PROVE x \in S
    <2>1. CASE Parent[x] = 0
      BY <2>1, SubtreeGrows
    <2>2. ASSUME NEW c \in Paths, Parent[c] = 0, Parent[x] \in Subtree[c] PROVE x \in S
      BY <2>2, SubtreeGrows
    <2> QED
      BY <1>1, <2>1, <2>2
  <1>2. S \in SUBSET Paths
    OBVIOUS
  <1>3. S = Paths
    <2> HIDE DEF S
    <2> QED
      BY <1>1, <1>2, RootAssumption
  <1> QED
    BY <1>3

\* Nothing is below a file but the file.
LEMMA LeavesAlone ==
  ASSUME NEW d \in Paths \ DirPaths, NEW p \in Subtree[d]
  PROVE  p = d
  <1> SUFFICES ASSUME p # d PROVE FALSE
    OBVIOUS
  <1>1. PICK c \in Paths : Parent[c] = d
    BY ThroughEntry
  <1> QED
    BY <1>1, NumbersBelow, PathsAreNumbers

\* A path does not exist without its directories.
LEMMA UpExists ==
  ASSUME \A p \in exists : Parent[p] \in exists \cup {0}, exists \subseteq Paths,
         NEW d \in Paths, NEW p \in Subtree[d], p \in exists
  PROVE  d \in exists
  <1> DEFINE S == {q \in Paths : q \in exists => d \in exists}
  <1>1. S \in SUBSET Paths /\ d \in S
    OBVIOUS
  <1>2. ASSUME NEW x \in Paths, Parent[x] \in S PROVE x \in S
    <2> SUFFICES ASSUME x \in exists PROVE d \in exists
      OBVIOUS
    <2>1. Parent[x] \in Paths
      BY <1>2
    <2>2. Parent[x] \in exists
      BY <2>1, PathsAreNumbers
    <2> QED
      BY <1>2, <2>2
  <1>3. Subtree[d] \subseteq S
    <2> HIDE DEF S
    <2> QED
      BY <1>1, <1>2, SubtreeLeast
  <1> QED
    BY <1>3

LEMMA RootedStep == TypeOK /\ Rooted /\ [Next]_vars => Rooted'
  <1> SUFFICES ASSUME TypeOK, Rooted, [Next]_vars PROVE Rooted'
    OBVIOUS
  <1>1. CASE UNCHANGED dirVars
    BY <1>1 DEF dirVars, Rooted
  <1>2. ASSUME NEW p \in Paths, Rewrite(p) \/ Truncate(p) PROVE Rooted'
    BY <1>2 DEF Rewrite, Truncate, Change, Rooted
  <1>3. ASSUME NEW p \in Paths, Replace(p) \/ MakeDir(p) PROVE Rooted'
    <2>1. exists' = exists \cup {p} /\ touched' = touched \cup {p}
          /\ Parent[p] \in exists \cup {0}
      BY <1>3 DEF Replace, MakeDir, Change
    <2> QED
      BY <2>1 DEF Rooted
  <1>4. ASSUME NEW p \in Paths, Remove(p) PROVE Rooted'
    <2>1. exists' = exists \ {p} /\ touched' = touched \cup {p} /\ Children(p) = {}
      BY <1>4 DEF Remove, Change
    <2>2. \A q \in exists : Parent[q] # p
      BY <2>1 DEF Children
    <2> QED
      BY <2>1, <2>2 DEF Rooted
  <1>5. WalkStep => UNCHANGED dirVars
    BY WalkTypeStep, Halves
  <1> QED
    BY <1>1, <1>2, <1>3, <1>4, <1>5 DEF Next, Over, Vaultwarden, vars

LEMMA NoDatabaseStep == TypeOK /\ NoDatabase /\ [Next]_vars => NoDatabase'
  <1> SUFFICES ASSUME TypeOK, NoDatabase, [Next]_vars PROVE NoDatabase'
    OBVIOUS
  <1>1. CASE ListRoot \/ ReadDir
    <2>1. PICK d : PushChildren(d)
      BY <1>1 DEF ListRoot, ReadDir
    <2>2. pc' = "pop" /\ archive' = archive
      BY <1>1 DEF ListRoot, ReadDir
    <2>3. \A k \in DOMAIN stack' : stack'[k] \notin Skipped
      BY <2>1, PushDoes DEF TypeOK, NoDatabase
    <2> QED
      BY <2>2, <2>3 DEF NoDatabase, Visiting
  <1>2. CASE Pop
    <2>1. stack' = Popped /\ cur' = Top /\ archive' = archive /\ stack # <<>>
      BY <1>2 DEF Pop
    <2> QED
      BY <2>1, PopDoes DEF TypeOK, NoDatabase
  <1>3. CASE Accept
    <2> DEFINE n == Len(archive) + 1
    <2>1. /\ DOMAIN archive' = 1..n /\ DOMAIN archive = 1..(n - 1) /\ n \in Nat \ {0}
          /\ \A k \in DOMAIN archive : archive'[k] = archive[k]
          /\ archive'[n].path = cur
          /\ pc = "check" /\ pc' = "pop" /\ stack' = stack
      BY <1>3, AcceptDoes
    <2> HIDE DEF n
    <2>2. cur \notin Skipped
      BY <2>1 DEF NoDatabase, Visiting
    <2>3. \A k \in 1..n : k \in 1..(n - 1) \/ k = n
      BY <2>1
    <2> QED
      BY <2>1, <2>2, <2>3 DEF NoDatabase, Visiting
  <1>4. ASSUME UNCHANGED <<stack, cur, archive>>, Visiting' => Visiting PROVE NoDatabase'
    BY <1>4 DEF NoDatabase
  <1>5. CASE Vaultwarden \/ UNCHANGED vars
    BY <1>4, <1>5, ChangesOnly DEF Visiting
  <1> QED
    BY <1>1, <1>2, <1>3, <1>4, <1>5, Elsewhere DEF Next, Over

\* A directory that is read leaves nothing of it out that was always there.
LEMMA PushReaches ==
  ASSUME TypeOK, Rooted, NEW d \in DirPaths \cup {0}, PushChildren(d),
         NEW p \in (Files \cap InitPaths) \ (touched \cup Skipped),
         d # 0 => p \in Subtree[d]
  PROVE  \E k \in DOMAIN stack' : p \in Subtree[stack'[k]]
  <1>1. p \in Paths /\ p \notin DirPaths /\ p \in exists /\ exists \subseteq Paths
    BY DEF Files, Rooted, TypeOK
  <1>2. PICK c \in Paths : Parent[c] = d /\ p \in Subtree[c]
    <2>1. CASE d = 0
      BY <1>1, <2>1, FromTheSource
    <2>2. CASE d # 0
      <3>1. d \in Paths /\ p # d
        BY <1>1, <2>2, KindsAssumption
      <3> QED
        BY <2>2, <3>1, ThroughEntry
    <2> QED
      BY <2>1, <2>2
  <1>3. c \in exists
    BY <1>1, <1>2, UpExists DEF Rooted
  <1>4. c \notin Skipped
    <2> SUFFICES ASSUME c \in Skipped PROVE FALSE
      OBVIOUS
    <2>1. c \notin DirPaths
      BY SkippedAssumption
    <2>2. p = c
      BY <1>2, <2>1, LeavesAlone
    <2> QED
      BY <2>2
  <1>5. c \in Children(d) \ Skipped
    BY <1>2, <1>3, <1>4 DEF Children
  <1>6. PICK k \in DOMAIN stack' : stack'[k] = c
    BY <1>5, PushDoes DEF TypeOK
  <1> QED
    BY <1>2, <1>6

LEMMA ReachedStep == TypeOK /\ Rooted /\ Reached /\ [Next]_vars => Reached'
  <1> SUFFICES ASSUME TypeOK, Rooted, Reached, [Next]_vars,
                      pc' \notin {"list", "failed"},
                      NEW p \in (Files \cap InitPaths) \ (touched' \cup Skipped)
               PROVE  Archived(p)' \/ Pending(p)'
    BY DEF Reached
  <1>0. p \notin touched
    <2>1. touched \subseteq touched'
      <3>1. UNCHANGED dirVars \/ Vaultwarden
        BY WalkTypeStep, Halves DEF Next, Over, vars
      <3> QED
        BY <3>1 DEF dirVars, Vaultwarden, Rewrite, Truncate, Replace, MakeDir, Remove, Change
    <2> QED
      BY <2>1
  <1>1. pc \notin {"list", "failed"} => Archived(p) \/ Pending(p)
    BY <1>0 DEF Reached
  <1>2. CASE ListRoot
    <2>1. PushChildren(0)
      BY <1>2 DEF ListRoot
    <2>2. \E k \in DOMAIN stack' : p \in Subtree[stack'[k]]
      BY <1>0, <2>1, PushReaches
    <2> QED
      BY <2>2 DEF Pending
  <1>3. CASE ReadDir
    <2>1. pc = "dir" /\ PushChildren(cur) /\ cur \in DirPaths /\ cur # 0 /\ archive' = archive
      BY <1>3, KindsAssumption, PathsAreNumbers DEF ReadDir, TypeOK
    <2>2. CASE Archived(p)
      BY <2>1, <2>2 DEF Archived
    <2>3. CASE p \in Subtree[cur]
      BY <1>0, <2>1, <2>3, PushReaches DEF Pending
    <2>4. ASSUME NEW k \in DOMAIN stack, p \in Subtree[stack[k]] PROVE Pending(p)'
      <3>1. k \in DOMAIN stack' /\ stack'[k] = stack[k]
        BY <2>1, PushDoes DEF TypeOK
      <3> QED
        BY <2>4, <3>1 DEF Pending
    <2> QED
      BY <1>1, <2>1, <2>2, <2>3, <2>4 DEF Pending
  <1>4. CASE Pop
    <2>1. /\ stack' = Popped /\ cur' = Top /\ archive' = archive /\ stack # <<>>
          /\ pc = "pop" /\ pc' = Visit(Top)
      BY <1>4 DEF Pop
    <2>2. /\ Top = stack[Len(stack)] /\ Top \in Paths
          /\ \A k \in DOMAIN stack : k \in DOMAIN Popped \/ k = Len(stack)
          /\ \A k \in DOMAIN Popped : Popped[k] = stack[k]
      BY <2>1, PopDoes DEF TypeOK
    <2>3. CASE Archived(p)
      BY <2>1, <2>3 DEF Archived
    <2>4. CASE p \in Subtree[Top]
      <3>1. Top \in Specials => Top \in DirPaths
        BY <2>2, <2>4, LeavesAlone DEF Files
      <3>2. Visiting'
        BY <2>1, <3>1 DEF Visit, Visiting
      <3> QED
        BY <2>1, <2>4, <3>2 DEF Pending
    <2>5. ASSUME NEW k \in DOMAIN Popped, p \in Subtree[stack[k]] PROVE Pending(p)'
      BY <2>1, <2>2, <2>5 DEF Pending
    <2>6. ~Visiting
      BY <2>1 DEF Visiting
    <2> QED
      BY <1>1, <2>1, <2>2, <2>3, <2>4, <2>5, <2>6 DEF Pending
  <1>5. CASE Accept
    <2> DEFINE n == Len(archive) + 1
    <2>1. /\ DOMAIN archive' = 1..n /\ DOMAIN archive = 1..(n - 1) /\ n \in Nat \ {0}
          /\ \A k \in DOMAIN archive : archive'[k] = archive[k]
          /\ archive'[n].path = cur
          /\ pc = "check" /\ stack' = stack
      BY <1>5, AcceptDoes
    <2>2. cur \in Paths \ DirPaths
      BY <2>1 DEF TypeOK, Files
    <2> HIDE DEF n
    <2>3. CASE Archived(p)
      <3>1. \A k \in 1..(n - 1) : k \in 1..n
        BY <2>1
      <3> QED
        BY <2>1, <2>3, <3>1 DEF Archived
    <2>4. CASE p \in Subtree[cur]
      <3>1. p = cur /\ n \in DOMAIN archive'
        BY <2>1, <2>2, <2>4, LeavesAlone
      <3> QED
        BY <2>1, <3>1 DEF Archived
    <2>5. ASSUME NEW k \in DOMAIN stack, p \in Subtree[stack[k]] PROVE Pending(p)'
      BY <2>1, <2>5 DEF Pending
    <2> QED
      BY <1>1, <2>1, <2>3, <2>4, <2>5 DEF Pending
  <1>6. ASSUME UNCHANGED <<stack, cur, archive>>, Visiting => Visiting',
               pc \notin {"list", "failed"}
        PROVE  Archived(p)' \/ Pending(p)'
    BY <1>1, <1>6 DEF Archived, Pending
  <1>7. CASE Vaultwarden \/ UNCHANGED vars
    BY <1>6, <1>7, ChangesOnly DEF Visiting
  <1>8. WalkStep /\ ~ListRoot => pc \notin {"list", "failed"}
    BY DEF WalkStep, Fail, CallFails, Pop, PopGone, ReadDir, ReadDirGone, Open, OpenGone, Fstat, FstatChanged,
           ReadBlock, ReadEof, Accept, Reject, Finish
  <1> QED
    BY <1>2, <1>3, <1>4, <1>5, <1>6, <1>7, <1>8, Elsewhere DEF Next, Over

\* All that the walk relies on holds at every step, whatever the tree, and
\* whatever vaultwarden does to it meanwhile.
THEOREM WalkAlwaysInOrder == Spec => []WalkInv
  <1>1. Init => Ordered /\ Rooted /\ NoDatabase /\ Reached /\ Linked
    <2>1. DOMAIN <<>> = {}
      OBVIOUS
    <2> QED
      BY <2>1, InitAssumption, InitInodes
      DEF Init, Ordered, Visiting, EntriesInOrder, Rooted, NoDatabase, Reached, Linked
  <1>2. Spec => [](TypeOK /\ Clocked /\ Linked /\ Ordered /\ Rooted /\ NoDatabase /\ Reached)
    BY <1>1, TypeInit, TypeStep, LinkedStep, OrderedStep, RootedStep, NoDatabaseStep,
       ReachedStep, PTL DEF Spec
  <1>3. CASE FineClock
    <2>1. Clocked /\ Linked /\ Streamed /\ Ordered /\ Rooted /\ NoDatabase /\ Reached => WalkInv
      BY DEF WalkInv
    <2> QED
      BY <1>2, <1>3, <2>1, StreamInv, PTL
  <1>4. CASE ~FineClock
    <2>1. Clocked /\ Linked /\ Ordered /\ Rooted /\ NoDatabase /\ Reached => WalkInv
      BY <1>4 DEF WalkInv
    <2> QED
      BY <1>2, <2>1, PTL
  <1> QED
    BY <1>3, <1>4

\* A walk that finishes has archived every file that was there from the start
\* and that nobody touched, exactly once, and the database never: in a tree of
\* any depth, whatever is created, replaced or removed around that file
\* (files::write, push_children).
THEOREM QuietAlwaysArchived == Spec => []QuietFilesArchived
  <1>1. TypeOK /\ WalkInv => QuietFilesArchived
    <2> SUFFICES ASSUME TypeOK, WalkInv, pc = "done",
                        NEW p \in (Files \cap InitPaths) \ touched
                 PROVE  Cardinality({k \in DOMAIN archive : archive[k].path = p})
                          = IF p \in Skipped THEN 0 ELSE 1
      BY DEF QuietFilesArchived
    <2> DEFINE K == {k \in DOMAIN archive : archive[k].path = p}
    <2>1. CASE p \in Skipped
      <3>1. K = {}
        BY <2>1 DEF WalkInv, NoDatabase
      <3> QED
        BY <2>1, <3>1, FS_EmptySet
    <2>2. CASE p \notin Skipped
      <3>1. ~Pending(p)
        <4>1. stack = <<>> /\ DOMAIN <<>> = {}
          BY DEF WalkInv, Ordered
        <4> QED
          BY <4>1 DEF Pending, Visiting
      <3>2. PICK k \in DOMAIN archive : archive[k].path = p
        BY <2>2, <3>1 DEF WalkInv, Reached, Archived
      <3>3. ASSUME NEW j \in DOMAIN archive, archive[j].path = p PROVE j = k
        <4>1. j \in Int /\ k \in Int
          <5>1. archive \in Seq(Entry)
            BY DEF TypeOK, Entry
          <5>2. DOMAIN archive = 1..Len(archive) /\ Len(archive) \in Nat
            BY <5>1, LenProperties
          <5> QED
            BY <5>2
        <4>2. p \in Nat
          BY PathsAreNumbers DEF Files
        <4>3. ~(j < k) /\ ~(k < j)
          BY <3>2, <3>3, <4>2 DEF WalkInv, Ordered, EntriesInOrder
        <4> QED
          BY <4>1, <4>3
      <3>4. K = {k}
        BY <3>2, <3>3
      <3> QED
        BY <2>2, <3>4, FS_Singleton
    <2> QED
      BY <2>1, <2>2
  <1> QED
    BY <1>1, WalkAlwaysInOrder, TypeCorrect, PTL
=============================================================================
