---------------------------- MODULE BackupProofs ----------------------------
(***************************************************************************)
(* Proofs about BackupRun, for all values of its constants.                *)
(***************************************************************************)
EXTENDS BackupRun, SequenceTheorems, TLAPS

-----------------------------------------------------------------------------
(* The order of the work.                                                  *)

\* After names the next stage of each (the sequence of calls in run).
LEMMA Order ==
    /\ \A b : /\ After("temp", b) = "snapshot" /\ After("snapshot", b) = "append"
              /\ After("append", b) = "list" /\ After("list", b) = "walk"
              /\ After("walk", b) = "finish" /\ After("finish", b) = "publish"
              /\ After("publish", b) = "drop"
              /\ After("gpg", b) = "gpgRename" /\ After("gpgRename", b) = "dropPlain"
              /\ After("dropPlain", b) = "ready"
    /\ After("drop", TRUE) = "gpg" /\ After("drop", FALSE) = "ready"
<1>1. DOMAIN Steps = 1..11 /\ Len(Steps) = 11
  BY DEF Steps
<1>2. \A i \in 1..11, j \in 1..11 : Steps[i] = Steps[j] => i = j
  BY DEF Steps
<1>3. \A k \in 1..11 : (CHOOSE i \in DOMAIN Steps : Steps[i] = Steps[k]) = k
  BY <1>1, <1>2
<1>4. /\ Steps[1] = "temp" /\ Steps[2] = "snapshot" /\ Steps[3] = "append"
      /\ Steps[4] = "list" /\ Steps[5] = "walk" /\ Steps[6] = "finish"
      /\ Steps[7] = "publish" /\ Steps[8] = "drop" /\ Steps[9] = "gpg"
      /\ Steps[10] = "gpgRename" /\ Steps[11] = "dropPlain"
  BY DEF Steps
<1>. QED
  BY <1>1, <1>3, <1>4 DEF After

\* The stages by name.
LEMMA StageNames ==
    Stages = {"temp", "snapshot", "append", "list", "walk", "finish", "publish", "drop",
              "gpg", "gpgRename", "dropPlain", "ready", "failed"}
BY DEF Stages, Steps

\* Where each step of the work leads.
LEMMA StageMoves ==
    /\ MakeTemp => stage' = "snapshot"
    /\ BackupStep => stage' = "snapshot" \/ stage' = "append"
    /\ BackupBusy => stage' = "failed"
    /\ AppendSnap => stage' = "list"
    /\ List => stage' = "walk"
    /\ WalkDone => stage' = "finish"
    /\ Finish => stage' = "publish"
    /\ Publish => stage' = "drop"
    /\ Gpg => stage' = "gpgRename"
    /\ GpgRename => stage' = "dropPlain"
    /\ DropPlain => stage' = "ready"
<1>1. MakeTemp => stage' = "snapshot"
  BY Order DEF MakeTemp
<1>2. BackupStep => stage' = "snapshot" \/ stage' = "append"
  <2>1. After("snapshot", FALSE) = "append"
    BY Order
  <2>2. BackupStep => stage = "snapshot" /\ (stage' = stage \/ stage' = After("snapshot", FALSE))
    BY DEF BackupStep
  <2>. QED
    BY <2>1, <2>2
<1>3. BackupBusy => stage' = "failed"
  BY Order DEF BackupBusy
<1>4. AppendSnap => stage' = "list"
  BY Order DEF AppendSnap
<1>5. List => stage' = "walk"
  BY Order DEF List
<1>6. WalkDone => stage' = "finish"
  BY Order DEF WalkDone
<1>7. Finish => stage' = "publish"
  BY Order DEF Finish
<1>8. Publish => stage' = "drop"
  BY Order DEF Publish
<1>9. Gpg => stage' = "gpgRename"
  BY Order DEF Gpg
<1>10. GpgRename => stage' = "dropPlain"
  BY Order DEF GpgRename
<1>11. DropPlain => stage' = "ready"
  BY Order DEF DropPlain
<1>. QED
  BY <1>1, <1>2, <1>3, <1>4, <1>5, <1>6, <1>7, <1>8, <1>9, <1>10, <1>11

\* The checks by number (their order in main and run).
LEMMA CheckNumbers ==
    /\ DOMAIN Checks = 1..9 /\ Len(Checks) = 9
    /\ Checks[1] = "flags" /\ Checks[2] = "name" /\ Checks[3] = "mode"
    /\ Checks[4] = "recipients" /\ Checks[5] = "source" /\ Checks[6] = "dirs"
    /\ Checks[7] = "nesting" /\ Checks[8] = "free" /\ Checks[9] = "bucket"
BY DEF Checks

\* The number of the next check is one.
LEMMA AtNat ==
    ASSUME PreTypeOK
    PROVE  at \in Nat
<1>1. at \in 1..Len(Checks) + 1
  BY DEF PreTypeOK
<1>. QED
  BY <1>1, CheckNumbers

\* Accepted, and a check passed, in numbers.
LEMMA CheckMeaning ==
    ASSUME at \in Nat
    PROVE  /\ Accepted <=> at > 9
           /\ Passed("mode") <=> at > 3
           /\ Passed("nesting") <=> at > 7
BY CheckNumbers DEF Accepted, Passed

-----------------------------------------------------------------------------
(* Types.                                                                  *)

\* A sequence over a set is one over any larger set.
LEMMA SeqGrows ==
    ASSUME NEW S, NEW T, S \subseteq T, NEW s \in Seq(S)
    PROVE  s \in Seq(T)
BY SeqDef

LEMMA InitTyped == Init => TypeOK
<1> SUFFICES ASSUME Init PROVE TypeOK
  OBVIOUS
<1>1. PreTypeOK
  <2>1. request.locals \in Seq(Spellings)
    BY RequestsAssumption DEF Init, InitPreflight
  <2>2. <<>> \in Seq(dirs) /\ Len(<<>>) = 0 /\ Len(request.locals) \in Nat
    BY <2>1
  <2>3. request \in Requests /\ link \in [Spellings -> Places] /\ relinks \in 0..MaxRelinks
    BY LinksAssumption, RelinksAssumption DEF Init, InitPreflight
  <2>4. at \in 1..Len(Checks) + 1 /\ refusedBy \in Range(Checks) \cup {Absent}
    BY CheckNumbers DEF Init, InitPreflight
  <2>5. dirs \subseteq Places /\ source \in dirs \cup {Absent} /\ made \in BOOLEAN
    BY PlacesAssumption DEF Init, InitPreflight
  <2>6. pending = request.locals /\ targets = <<>>
    BY DEF Init, InitPreflight
  <2>. QED
    BY <2>1, <2>2, <2>3, <2>4, <2>5, <2>6 DEF PreTypeOK
<1>2. CaptureTypeOK
  <2>1. db \subseteq Pages /\ files \subseteq Pages
    BY DEF Init, InitCapture
  <2>2. stage \in Stages
    BY StageNames DEF Init, InitCapture
  <2>3. copied \in 0..NumPages
    BY PagesAssumption DEF Init, InitCapture
  <2>4. scratch \in [Kinds -> {"absent", "partial", "whole"}]
    BY DEF Init, InitCapture, NoScratch
  <2>5. snap = {} /\ kept = {} /\ listed = {} /\ archived = {}
    BY DEF Init, InitCapture
  <2>6. locked \in BOOLEAN /\ stale \in BOOLEAN
    BY DEF Init, InitCapture
  <2>. QED
    BY <2>1, <2>2, <2>3, <2>4, <2>5, <2>6 DEF CaptureTypeOK
<1>3. Len(Destinations) \in Nat
  <2>1. targets = <<>>
    BY DEF Init, InitPreflight
  <2>. QED
    BY <2>1 DEF Destinations, BucketIfAsked
<1>4. holds \in [Places \cup {Bucket} -> {Absent}]
  BY DEF Init
<1>5. delivered \in Seq(dirs \cup {Bucket}) /\ Len(delivered) = 0
  BY DEF Init
<1>6. next = 1 /\ failed \in BOOLEAN /\ result = Absent
  BY DEF Init
<1>. QED
  BY <1>1, <1>2, <1>3, <1>4, <1>5, <1>6 DEF TypeOK

\* A check that passes or refuses moves on, or notes itself.
LEMMA PassTyped ==
    ASSUME PreTypeOK, NEW c, Checking(c), Pass, source' \in dirs \cup {Absent}
    PROVE  PreTypeOK'
<1>1. at' \in 1..Len(Checks) + 1
  BY CheckNumbers DEF PreTypeOK, Checking, Pass
<1>. QED
  BY <1>1 DEF PreTypeOK, Pass

LEMMA RefuseTyped ==
    ASSUME PreTypeOK, NEW c \in Range(Checks), Refuse(c)
    PROVE  PreTypeOK'
BY DEF PreTypeOK, Refuse

\* The head of pending is a spelling, and leads to a place.
LEMMA HeadLeads ==
    ASSUME PreTypeOK, pending # <<>>
    PROVE  /\ Head(pending) \in Spellings /\ link[Head(pending)] \in Places
           /\ Above[link[Head(pending)]] \subseteq Places
           /\ Tail(pending) \in Seq(Spellings) /\ Len(pending) \in Nat
           /\ Len(Tail(pending)) = Len(pending) - 1
<1>1. pending \in Seq(Spellings)
  BY DEF PreTypeOK
<1>2. Head(pending) \in Spellings /\ Tail(pending) \in Seq(Spellings)
      /\ Len(pending) \in Nat /\ Len(Tail(pending)) = Len(pending) - 1
  BY <1>1, HeadTailProperties
<1>3. link[Head(pending)] \in Places
  BY <1>2 DEF PreTypeOK
<1>. QED
  BY <1>2, <1>3, PlacesAssumption

LEMMA PreTyped == PreTypeOK /\ PreflightStep => PreTypeOK'
<1> SUFFICES ASSUME PreTypeOK, PreflightStep PROVE PreTypeOK'
  OBVIOUS
<1>0. \A c \in {"source", "dirs"} : c \in Range(Checks)
  BY CheckNumbers DEF Range
<1>1. CASE \E c \in Range(Checks) : Look(c)
  BY <1>1, PassTyped DEF Look, PreTypeOK
<1>2. CASE \E c \in Range(Checks) : LookFails(c)
  BY <1>2, RefuseTyped DEF LookFails
<1>3. CASE FindSource
  BY <1>3, PassTyped DEF FindSource
<1>4. CASE NoSource
  BY <1>4, <1>0, RefuseTyped DEF NoSource
<1>5. CASE MakeDir
  <2>1. dirs \subseteq dirs' /\ dirs' \subseteq Places
    BY <1>5, HeadLeads DEF MakeDir, PreTypeOK
  <2>2. targets' \in Seq(dirs')
    BY <1>5, <2>1, SeqGrows DEF MakeDir, PreTypeOK
  <2>. QED
    BY <1>5, <2>1, <2>2 DEF MakeDir, PreTypeOK
<1>6. CASE MakeDirFails
  <2>1. dirs \subseteq dirs' /\ dirs' \subseteq Places
    BY <1>6, HeadLeads DEF MakeDirFails, PreTypeOK
  <2>2. targets' \in Seq(dirs')
    BY <1>6, <2>1, SeqGrows DEF MakeDirFails, PreTypeOK
  <2>. QED
    BY <1>6, <1>0, <2>1, <2>2 DEF MakeDirFails, PreTypeOK
<1>7. CASE Canonicalize
  <2> DEFINE d == link[Head(pending)]
  <2>1. d \in dirs /\ targets \in Seq(dirs) /\ Len(targets) \in Nat
    BY <1>7 DEF Canonicalize, PreTypeOK
  <2>2. Append(targets, d) \in Seq(dirs) /\ Len(Append(targets, d)) = Len(targets) + 1
    BY <2>1, AppendProperties
  <2>3. targets' \in Seq(dirs) /\ Len(targets') \in Nat /\ Len(targets') <= Len(targets) + 1
    BY <1>7, <2>1, <2>2 DEF Canonicalize
  <2>4. pending' \in Seq(Spellings) /\ Len(pending') = Len(pending) - 1 /\ Len(pending) \in Nat
    BY <1>7, HeadLeads DEF Canonicalize
  <2>5. request.locals \in Seq(Spellings) /\ Len(request.locals) \in Nat
    BY RequestsAssumption DEF PreTypeOK
  <2>6. Len(targets') + Len(pending') <= Len(request.locals)
    BY <2>1, <2>3, <2>4, <2>5 DEF PreTypeOK
  <2>. QED
    BY <1>7, <2>3, <2>4, <2>6 DEF Canonicalize, PreTypeOK
<1>8. CASE AllDirs
  BY <1>8, PassTyped DEF AllDirs, PreTypeOK
<1>. QED
  BY <1>1, <1>2, <1>3, <1>4, <1>5, <1>6, <1>7, <1>8 DEF PreflightStep

LEMMA RelinkTyped ==
    ASSUME PreTypeOK, NEW p, Relink(p)
    PROVE  PreTypeOK'
<1>1. p \in Spellings /\ dirs \subseteq Places
  BY LinksAssumption DEF Relink, PreTypeOK
<1>2. link' \in [Spellings -> Places]
  BY <1>1 DEF Relink, PreTypeOK
<1>3. relinks' \in 0..MaxRelinks
  BY RelinksAssumption DEF Relink, PreTypeOK
<1>. QED
  BY <1>2, <1>3 DEF Relink, PreTypeOK

\* Where a step of the online backup ends.
LEMMA UptoIn ==
    ASSUME CaptureTypeOK
    PROVE  Resume \in 0..NumPages /\ Upto(Resume) \in 0..NumPages
BY PagesAssumption DEF CaptureTypeOK, Resume, Upto

LEMMA BackupStepTyped ==
    ASSUME CaptureTypeOK, Unwalked, BackupStep
    PROVE  CaptureTypeOK' /\ Unwalked'
<1>1. copied' \in 0..NumPages
  BY UptoIn DEF BackupStep
<1>2. snap' \subseteq Pages
  BY DEF BackupStep, CaptureTypeOK
<1>3. stage' \in Stages /\ stage' \in {"snapshot", "append"}
  BY StageMoves, StageNames
<1>6. kept' \subseteq files
  BY DEF BackupStep, CaptureTypeOK
<1>4. scratch' \in [Kinds -> {"absent", "partial", "whole"}]
  BY DEF BackupStep, CaptureTypeOK
<1>5. archived = {} /\ stale' = FALSE
  BY DEF BackupStep, Unwalked
<1>. QED
  BY <1>1, <1>2, <1>3, <1>4, <1>5, <1>6 DEF BackupStep, CaptureTypeOK, Unwalked

LEMMA CaptureFailsTyped ==
    ASSUME CaptureTypeOK, CaptureFails
    PROVE  CaptureTypeOK' /\ Unwalked'
<1>1. scratch' \in [Kinds -> {"absent", "partial", "whole"}]
  BY DEF CaptureFails, CaptureTypeOK
<1>2. stage' = "failed" /\ stage' \in Stages
  BY StageNames DEF CaptureFails
<1>. QED
  BY <1>1, <1>2 DEF CaptureFails, CaptureTypeOK, Unwalked

\* Renaming, creating and removing files leaves a well-typed scratch.
LEMMA ScratchTyped ==
    ASSUME CaptureTypeOK
    PROVE  /\ \A k \in Kinds, v \in {"absent", "partial", "whole"} :
                 [scratch EXCEPT ![k] = v] \in [Kinds -> {"absent", "partial", "whole"}]
           /\ \A k, l \in Kinds :
                 /\ Renamed(k, l) \in [Kinds -> {"absent", "partial", "whole"}]
                 /\ scratch[k] \in {"absent", "partial", "whole"}
BY DEF CaptureTypeOK, Renamed

\* A step that changes stage and scratch alone, and not backwards.
LEMMA ScratchStep ==
    ASSUME CaptureTypeOK, Unwalked, stage' \in Stages,
           scratch' \in [Kinds -> {"absent", "partial", "whole"}],
           UNCHANGED <<db, locked, files, snap, copied, stale, kept, listed, archived>>,
           stage' \in {"temp", "snapshot", "append", "list"}
              => stage \in {"temp", "snapshot", "append", "list"}
    PROVE  CaptureTypeOK' /\ Unwalked'
<1>1. CaptureTypeOK'
  BY DEF CaptureTypeOK
<1>2. Unwalked'
  BY DEF Unwalked
<1>. QED
  BY <1>1, <1>2

LEMMA CaptureTyped ==
    ASSUME CaptureTypeOK, Unwalked, NEW b \in BOOLEAN, CaptureStep(b)
    PROVE  CaptureTypeOK' /\ Unwalked'
<1>0. Kinds = {"snap", "tgz.part", "tgz", "gpg.part", "gpg"}
  BY DEF Kinds
<1>1. CASE MakeTemp
  BY <1>1, Order, StageNames DEF MakeTemp, CaptureTypeOK, Unwalked
<1>2. CASE BackupStep
  BY <1>2, BackupStepTyped
<1>3. CASE BackupBusy
  BY <1>3, StageNames DEF BackupBusy, CaptureTypeOK, Unwalked
<1>4. CASE AppendSnap
  <2>1. stage' = "list" /\ stage' \in Stages
    BY <1>4, StageMoves, StageNames
  <2>2. scratch' \in [Kinds -> {"absent", "partial", "whole"}]
    BY <1>4, <1>0, ScratchTyped DEF AppendSnap
  <2>3. UNCHANGED <<db, locked, files, snap, copied, stale, kept, listed, archived>>
    BY <1>4 DEF AppendSnap
  <2>. QED
    BY <2>1, <2>2, <2>3, <1>4, ScratchStep DEF AppendSnap
<1>5. CASE List
  <2>1. archived = {} /\ stage' = "walk"
    BY <1>5, Order DEF List, Unwalked
  <2>. QED
    BY <1>5, <2>1, StageNames DEF List, CaptureTypeOK, Unwalked
<1>6. CASE \E f \in Pages : Visit(f)
  BY <1>6 DEF Visit, Upcoming, Rest, CaptureTypeOK, Unwalked
<1>7. CASE \E f \in Pages : VisitGone(f)
  BY <1>7, CaptureFailsTyped DEF VisitGone
<1>8. CASE WalkDone
  BY <1>8, Order, StageNames DEF WalkDone, CaptureTypeOK, Unwalked
<1>9. CASE Finish
  <2>1. stage' = "publish" /\ stage' \in Stages
    BY <1>9, StageMoves, StageNames
  <2>2. scratch' \in [Kinds -> {"absent", "partial", "whole"}]
    BY <1>9, <1>0, ScratchTyped DEF Finish
  <2>3. UNCHANGED <<db, locked, files, snap, copied, stale, kept, listed, archived>>
    BY <1>9 DEF Finish
  <2>. QED
    BY <2>1, <2>2, <2>3, ScratchStep
<1>10. CASE Publish
  <2>1. stage' = "drop" /\ stage' \in Stages
    BY <1>10, StageMoves, StageNames
  <2>2. scratch' \in [Kinds -> {"absent", "partial", "whole"}]
    BY <1>10, <1>0, ScratchTyped DEF Publish
  <2>3. UNCHANGED <<db, locked, files, snap, copied, stale, kept, listed, archived>>
    BY <1>10 DEF Publish
  <2>. QED
    BY <2>1, <2>2, <2>3, ScratchStep
<1>11. CASE DropSnap(b)
  <2>1. After("drop", b) \in {"gpg", "ready"}
    BY Order
  <2>2. scratch' \in [Kinds -> {"absent", "partial", "whole"}]
    BY <1>11, <1>0, ScratchTyped DEF DropSnap, CaptureTypeOK
  <2>. QED
    BY <1>11, <2>1, <2>2, StageNames DEF DropSnap, CaptureTypeOK, Unwalked
<1>12. CASE Gpg
  <2>1. stage' = "gpgRename" /\ stage' \in Stages
    BY <1>12, StageMoves, StageNames
  <2>2. scratch' \in [Kinds -> {"absent", "partial", "whole"}]
    BY <1>12, <1>0, ScratchTyped DEF Gpg
  <2>3. UNCHANGED <<db, locked, files, snap, copied, stale, kept, listed, archived>>
    BY <1>12 DEF Gpg
  <2>. QED
    BY <2>1, <2>2, <2>3, ScratchStep
<1>13. CASE GpgRename
  <2>1. stage' = "dropPlain" /\ stage' \in Stages
    BY <1>13, StageMoves, StageNames
  <2>2. scratch' \in [Kinds -> {"absent", "partial", "whole"}]
    BY <1>13, <1>0, ScratchTyped DEF GpgRename
  <2>3. UNCHANGED <<db, locked, files, snap, copied, stale, kept, listed, archived>>
    BY <1>13 DEF GpgRename
  <2>. QED
    BY <2>1, <2>2, <2>3, ScratchStep
<1>14. CASE DropPlain
  <2>1. stage' = "ready" /\ stage' \in Stages
    BY <1>14, StageMoves, StageNames
  <2>2. scratch' \in [Kinds -> {"absent", "partial", "whole"}]
    BY <1>14, <1>0, ScratchTyped DEF DropPlain
  <2>3. UNCHANGED <<db, locked, files, snap, copied, stale, kept, listed, archived>>
    BY <1>14 DEF DropPlain
  <2>. QED
    BY <2>1, <2>2, <2>3, ScratchStep
<1>. QED
  BY <1>1, <1>2, <1>3, <1>4, <1>5, <1>6, <1>7, <1>8, <1>9, <1>10, <1>11, <1>12, <1>13, <1>14
  DEF CaptureStep

LEMMA VaultwardenTyped ==
    ASSUME CaptureTypeOK, Unwalked, Vaultwarden
    PROVE  CaptureTypeOK' /\ Unwalked'
<1>1. CASE Commit
  BY <1>1 DEF Commit, Write, CaptureTypeOK, Unwalked
<1>2. CASE Lock
  BY <1>2 DEF Lock, CaptureTypeOK, Unwalked
<1>3. CASE Unlock
  BY <1>3 DEF Unlock, Write, CaptureTypeOK, Unwalked
<1>4. CASE ChangeFile
  BY <1>4 DEF ChangeFile, CaptureTypeOK, Unwalked
<1>. QED
  BY <1>1, <1>2, <1>3, <1>4 DEF Vaultwarden

\* Targets, and the object after them, are a sequence.
LEMMA DestinationsTyped ==
    ASSUME NEW S, NEW t \in Seq(S), NEW r \in {<<>>, <<Bucket>>}
    PROVE  t \o r \in Seq(S \cup {Bucket}) /\ Len(t \o r) \in Nat
<1>1. t \in Seq(S \cup {Bucket})
  BY SeqGrows
<1>2. r \in Seq(S \cup {Bucket})
  <2>1. \A B : <<B>> \in Seq({B}) /\ <<>> \in Seq({B})
    OBVIOUS
  <2>2. r \in Seq({Bucket})
    BY <2>1
  <2>. QED
    BY <2>2, SeqGrows
<1>. QED
  BY <1>1, <1>2, ConcatProperties

\* The variables of a run that are left alone stay well-typed while the targets
\* do.
LEMMA RunKept ==
    ASSUME TypeOK, UNCHANGED runVars, PreTypeOK', CaptureTypeOK', dirs \subseteq dirs',
           next = 1 \/ UNCHANGED <<request, targets>>
    PROVE  TypeOK'
<1>1. Len(Destinations') \in Nat
  BY DestinationsTyped DEF Destinations, BucketIfAsked, PreTypeOK
<1>2. next' \in 1..Len(Destinations') + 1
  <2>1. CASE next = 1
    BY <1>1, <2>1 DEF runVars
  <2>2. CASE UNCHANGED <<request, targets>>
    BY <2>2 DEF TypeOK, runVars, Destinations, BucketIfAsked
  <2>. QED
    BY <2>1, <2>2
<1>3. delivered' \in Seq(dirs' \cup {Bucket})
  <2>1. dirs \cup {Bucket} \subseteq dirs' \cup {Bucket}
    OBVIOUS
  <2>. QED
    BY <2>1, SeqGrows DEF TypeOK, runVars
<1>. QED
  BY <1>2, <1>3 DEF TypeOK, runVars

LEMMA NextTyped == TypeOK /\ NothingYet /\ Unwalked /\ [Next]_vars => TypeOK' /\ Unwalked'
<1> SUFFICES ASSUME TypeOK, NothingYet, Unwalked, [Next]_vars PROVE TypeOK' /\ Unwalked'
  OBVIOUS
<1>0. PreTypeOK /\ CaptureTypeOK /\ Openpgp \in BOOLEAN
  BY DEF TypeOK, Openpgp
<1>1. CASE Check
  <2>1. PreTypeOK'
    BY <1>0, <1>1, PreTyped DEF Check
  <2>2. CaptureTypeOK' /\ Unwalked'
    BY <1>0, <1>1 DEF Check, capVars, CaptureTypeOK, Unwalked
  <2>3. at \in Nat /\ ~Accepted
    BY <1>1, CheckNumbers, <1>0 DEF PreTypeOK, Check, PreflightStep, Look, LookFails, FindSource, NoSource, MakeDir,
       MakeDirFails, Canonicalize, AllDirs, Checking, Accepted
  <2>4. dirs \subseteq dirs'
    BY <1>1 DEF Check, PreflightStep, Look, LookFails, FindSource, NoSource, MakeDir,
       MakeDirFails, Canonicalize, AllDirs, Pass, Refuse
  <2>. QED
    BY <1>1, <2>1, <2>2, <2>3, <2>4, RunKept DEF Check, NothingYet
<1>2. CASE Refused
  BY <1>2 DEF Refused, preVars, capVars, TypeOK, PreTypeOK, CaptureTypeOK, Destinations,
     BucketIfAsked, Unwalked
<1>3. CASE Work \/ WorkFails \/ Environment
  <2>1. PreTypeOK' /\ UNCHANGED <<dirs, request, targets>>
    <3>1. CASE UNCHANGED preVars
      BY <1>0, <3>1 DEF preVars, PreTypeOK
    <3>2. CASE \E p \in Links : Relink(p)
      BY <1>0, <3>2, RelinkTyped DEF Relink
    <3>. QED
      BY <1>3, <3>1, <3>2 DEF Work, WorkFails, Environment
  <2>2. CaptureTypeOK' /\ Unwalked'
    <3>1. CASE UNCHANGED capVars
      BY <1>0, <3>1 DEF capVars, CaptureTypeOK, Unwalked
    <3>2. CASE CaptureStep(Openpgp) \/ CaptureFails \/ Vaultwarden
      BY <1>0, <3>2, CaptureTyped, CaptureFailsTyped, VaultwardenTyped
    <3>. QED
      BY <1>3, <3>1, <3>2 DEF Work, WorkFails, Environment
  <2>3. UNCHANGED runVars
    BY <1>3 DEF Work, WorkFails, Environment
  <2>. QED
    BY <2>1, <2>2, <2>3, RunKept
<1>4. CASE DeliverNext \/ DeliverNextFails
  <2>1. PreTypeOK' /\ CaptureTypeOK' /\ Unwalked'
    BY <1>0, <1>4 DEF DeliverNext, DeliverNextFails, preVars, capVars, PreTypeOK, CaptureTypeOK, Unwalked
  <2>2. UNCHANGED <<Destinations, dirs>>
    BY <1>4 DEF DeliverNext, DeliverNextFails, preVars, Destinations, BucketIfAsked
  <2>3. Destinations \in Seq(dirs \cup {Bucket}) /\ Len(Destinations) \in Nat
    BY <1>0, DestinationsTyped DEF Destinations, BucketIfAsked, PreTypeOK
  <2>4. next \in Nat /\ next >= 1 /\ next <= Len(Destinations)
    BY <1>4, <2>3 DEF TypeOK, DeliverNext, DeliverNextFails, Delivering
  <2>5. next' \in 1..Len(Destinations') + 1 /\ next' = next + 1
    BY <1>4, <2>2, <2>3, <2>4 DEF DeliverNext, DeliverNextFails
  <2>6. Destinations[next] \in dirs \cup {Bucket}
    BY <2>3, <2>4, ElementOfSeq
  <2>7. CASE DeliverNext
    <3>1. delivered' \in Seq(dirs \cup {Bucket}) /\ Len(delivered') = Len(delivered) + 1
      BY <2>6, <2>7, AppendProperties DEF DeliverNext, TypeOK
    <3>2. Len(delivered) \in Nat /\ Len(delivered) < next
      BY DEF TypeOK
    <3>3. Artifact \in Kinds /\ scratch[Artifact] \in {"absent", "partial", "whole"}
      BY <1>0 DEF Artifact, Kinds, CaptureTypeOK
    <3>4. holds' \in [Places \cup {Bucket} ->
                    {Absent} \cup [kind : Kinds, state : {"absent", "partial", "whole"}]]
      BY <2>7, <3>3 DEF DeliverNext, TypeOK
    <3>5. Len(delivered') < next'
      BY <2>4, <2>5, <3>1, <3>2
    <3>. QED
      BY <2>1, <2>2, <2>5, <2>7, <3>1, <3>4, <3>5 DEF DeliverNext, TypeOK
  <2>8. CASE DeliverNextFails
    <3>1. Len(delivered') < next'
      BY <2>4, <2>5, <2>8 DEF DeliverNextFails, TypeOK
    <3>. QED
      BY <2>1, <2>2, <2>5, <2>8, <3>1 DEF DeliverNextFails, TypeOK
  <2>. QED
    BY <1>4, <2>7, <2>8
<1>5. CASE GiveUp \/ Return
  <2>1. PICK ok \in BOOLEAN : Leave(ok)
    BY <1>5 DEF GiveUp, Return, Succeeded
  <2>2. UNCHANGED <<preVars, db, locked, files, stage, snap, copied, stale, kept, listed,
                   archived, holds, next, delivered, failed>>
    BY <2>1 DEF Leave
  <2>3. scratch' \in [Kinds -> {"absent", "partial", "whole"}]
    <3>1. PICK left \in SUBSET Kinds :
             scratch' = [k \in Kinds |-> IF k \in left THEN scratch[k] ELSE "absent"]
      BY <2>1 DEF Leave, Leftovers
    <3>. QED
      BY <3>1 DEF TypeOK, CaptureTypeOK
  <2>4. PreTypeOK' /\ UNCHANGED <<Destinations, dirs>>
    BY <1>0, <2>2 DEF preVars, PreTypeOK, Destinations, BucketIfAsked
  <2>5. CaptureTypeOK' /\ Unwalked'
    BY <1>0, <2>2, <2>3 DEF CaptureTypeOK, Unwalked
  <2>6. result' \in {"ok", "error"}
    BY <2>1 DEF Leave
  <2>. QED
    BY <2>2, <2>4, <2>5, <2>6 DEF TypeOK
<1>6. CASE Kill
  BY <1>6 DEF Kill, preVars, capVars, TypeOK, PreTypeOK, CaptureTypeOK, Destinations,
     BucketIfAsked, Unwalked
<1>7. CASE UNCHANGED vars
  BY <1>7 DEF vars, runVars, preVars, capVars, TypeOK, PreTypeOK, CaptureTypeOK, Destinations,
     BucketIfAsked, Unwalked
<1>. QED
  BY <1>1, <1>2, <1>3, <1>4, <1>5, <1>6, <1>7 DEF Next, ProgramStep, Fault, Done

-----------------------------------------------------------------------------
(* What the checks have found, and what is there before the last of them.  *)

\* A check may move on; source and targets settle before "nesting".
LEMMA PreflightMoves ==
    ASSUME TypeOK, PreflightStep
    PROVE  /\ at \in Nat /\ ~Accepted /\ refusedBy = Absent
           /\ at' = at \/ (at' = at + 1 /\ refusedBy' = Absent)
           /\ UNCHANGED request
           /\ at # 5 => UNCHANGED source
           /\ at # 6 => UNCHANGED targets
           /\ at \in {5, 6} => at' \in {5, 6, 7}
           /\ at = 3 /\ at' = 4 => ~ModeWrong(request)
           /\ at = 7 /\ at' = 8 => \A i \in DOMAIN targets : ~Related(targets[i], source)
<1>1. at \in Nat /\ (at > 9 => Accepted) /\ (Accepted => at > 9)
  BY AtNat, CheckMeaning DEF TypeOK
<1>2. \A c : Checking(c) =>
        /\ at \in 1..9 /\ refusedBy = Absent
        /\ c = "source" => at = 5
        /\ c = "dirs" => at = 6
        /\ at = 3 => c = "mode"
        /\ at = 7 => c = "nesting"
  BY CheckNumbers DEF Checking
<1>3. CASE \E c \in Range(Checks) : Look(c)
  <2>1. PICK c : Checking(c) /\ c \notin {"source", "dirs"} /\ ~Wrong(c) /\ Pass /\ UNCHANGED source
    BY <1>3 DEF Look
  <2>2. at' = at + 1 /\ UNCHANGED <<request, refusedBy, source, targets>>
    BY <2>1 DEF Pass
  <2>3. at # 5 /\ at # 6
    BY <2>1, CheckNumbers DEF Checking
  <2>4. at = 3 => ~ModeWrong(request)
    BY <1>2, <2>1 DEF Wrong
  <2>5. at = 7 => \A i \in DOMAIN targets : ~Related(targets[i], source)
    BY <1>2, <2>1 DEF Wrong
  <2>. QED
    BY <1>1, <1>2, <2>1, <2>2, <2>3, <2>4, <2>5
<1>4. CASE \E c \in Range(Checks) : LookFails(c)
  BY <1>1, <1>2, <1>4 DEF LookFails, Refuse
<1>5. CASE FindSource \/ NoSource
  BY <1>1, <1>2, <1>5 DEF FindSource, NoSource, Pass, Refuse
<1>6. CASE MakeDir \/ MakeDirFails \/ Canonicalize \/ AllDirs
  BY <1>1, <1>2, <1>6 DEF MakeDir, MakeDirFails, Canonicalize, AllDirs, Pass
<1>. QED
  BY <1>3, <1>4, <1>5, <1>6 DEF PreflightStep

\* Outside of the checks, what they have settled stays.
LEMMA OthersLeaveChecks ==
    ASSUME [Next]_vars, ~Check
    PROVE  UNCHANGED <<request, at, refusedBy, source, targets>>
BY DEF Next, ProgramStep, Fault, Environment, Done, Refused, Work, WorkFails, DeliverNext,
   DeliverNextFails, GiveUp, Return, Leave, Kill, Relink, vars, preVars

LEMMA VettedKept == TypeOK /\ Vetted /\ [Next]_vars => Vetted'
<1> SUFFICES ASSUME TypeOK, Vetted, [Next]_vars PROVE Vetted'
  OBVIOUS
<1>1. at \in Nat
  BY AtNat DEF TypeOK
<1>2. CASE ~Check
  BY <1>2, OthersLeaveChecks DEF Vetted, Passed, ModeWrong, Related
<1>3. CASE Check
  <2>1. PreflightStep
    BY <1>3 DEF Check
  <2>2. at' \in Nat
    BY <1>1, <2>1, PreflightMoves
  <2>3. (Passed("mode") <=> at > 3) /\ (Passed("nesting") <=> at > 7)
    BY <1>1, CheckMeaning
  <2>4. (Passed("mode")' <=> at' > 3) /\ (Passed("nesting")' <=> at' > 7)
    BY <2>2, CheckNumbers DEF Passed
  <2>5. Passed("mode")' => ~ModeWrong(request)'
    BY <1>1, <2>1, <2>3, <2>4, PreflightMoves DEF Vetted, ModeWrong
  <2>6. ASSUME at' > 7
        PROVE  UNCHANGED <<targets, source>> /\ \A i \in DOMAIN targets : ~Related(targets[i], source)
    BY <1>1, <2>1, <2>3, <2>6, PreflightMoves DEF Vetted
  <2>7. Passed("nesting")' => (\A i \in DOMAIN targets : ~Related(targets[i], source))'
    BY <2>4, <2>6 DEF Related
  <2>. QED
    BY <2>5, <2>7 DEF Vetted
<1>. QED
  BY <1>2, <1>3

LEMMA NothingKept == TypeOK /\ NothingYet /\ [Next]_vars => NothingYet'
<1> SUFFICES ASSUME TypeOK, NothingYet, [Next]_vars PROVE NothingYet'
  OBVIOUS
<1>1. CASE Check
  <2>1. PreflightStep /\ UNCHANGED <<stage, scratch, next, delivered>>
    BY <1>1 DEF Check, capVars, runVars
  <2>2. at \in Nat /\ ~Accepted /\ (at' # at => refusedBy' = Absent)
    BY <2>1, PreflightMoves
  <2>3. at' = at => ~Accepted'
    BY <2>2 DEF Accepted, Checks
  <2>. QED
    BY <2>1, <2>2, <2>3 DEF NothingYet
<1>2. CASE ~Check /\ Accepted
  BY <1>2, OthersLeaveChecks DEF NothingYet, Accepted, Checks
<1>3. CASE ~Check /\ ~Accepted
  <2>1. stage = "temp"
    BY <1>3 DEF NothingYet
  <2>2. UNCHANGED <<stage, scratch, next, delivered>>
    BY <1>3, <2>1 DEF Next, ProgramStep, Fault, Environment, Done, Refused, Work, WorkFails,
       DeliverNext, DeliverNextFails, Delivering, GiveUp, Return, Kill, vars, capVars, runVars
  <2>3. UNCHANGED <<at, refusedBy>>
    BY <1>3, OthersLeaveChecks
  <2>. QED
    BY <2>2, <2>3 DEF NothingYet, Accepted, Checks
<1>. QED
  BY <1>1, <1>2, <1>3

-----------------------------------------------------------------------------
(* The artifact, from stage to stage and to the destinations.              *)

\* A step of the work leaves the file that the next stage takes up.
LEMMA CaptureProgress ==
    ASSUME TypeOK, Progress, Running, NEW b \in BOOLEAN, b = Openpgp, CaptureStep(b),
           UNCHANGED <<request, result>>
    PROVE  Progress'
<1>0. /\ Kinds = {"snap", "tgz.part", "tgz", "gpg.part", "gpg"}
      /\ scratch \in [Kinds -> {"absent", "partial", "whole"}]
      /\ Openpgp' = Openpgp /\ Artifact' = Artifact
  BY DEF Kinds, TypeOK, CaptureTypeOK, Openpgp, Artifact
<1>1. CASE stage' \in {"temp", "snapshot", "append", "list", "walk", "finish", "failed"}
  BY <1>1 DEF Progress
<1>2. CASE UNCHANGED <<stage, scratch>>
  BY <1>0, <1>2 DEF Progress, Running
<1>3. CASE Finish
  <2>1. stage' = "publish" /\ scratch'["tgz.part"] = "whole"
    BY <1>0, <1>3, StageMoves DEF Finish
  <2>. QED
    BY <2>1 DEF Progress
<1>4. CASE Publish
  <2>1. stage' = "drop"
    BY <1>4, StageMoves
  <2>2. scratch["tgz.part"] = "whole"
    BY <1>4 DEF Publish, Progress
  <2>3. scratch'["tgz"] = "whole"
    BY <1>0, <1>4, <2>2 DEF Publish, Renamed
  <2>. QED
    BY <2>1, <2>3 DEF Progress
<1>5. CASE DropSnap(b)
  <2>1. scratch'["tgz"] = "whole"
    BY <1>0, <1>5 DEF DropSnap, Progress
  <2>2. (b /\ stage' = "gpg") \/ (~b /\ stage' = "ready")
    BY <1>5, Order DEF DropSnap
  <2>3. Artifact = IF b THEN "gpg" ELSE "tgz"
    BY DEF Artifact
  <2>. QED
    BY <1>0, <2>1, <2>2, <2>3 DEF Progress
<1>6. CASE Gpg
  <2>1. stage = "gpg" /\ stage' = "gpgRename" /\ scratch'["gpg.part"] = "whole"
    BY <1>0, <1>6, StageMoves DEF Gpg, Progress
  <2>. QED
    BY <1>0, <2>1 DEF Progress
<1>7. CASE GpgRename
  <2>1. stage = "gpgRename" /\ stage' = "dropPlain"
    BY <1>7, StageMoves DEF GpgRename
  <2>2. scratch["gpg.part"] = "whole"
    BY <2>1 DEF Progress
  <2>3. scratch'["gpg"] = "whole"
    BY <1>0, <1>7, <2>2 DEF GpgRename, Renamed
  <2>. QED
    BY <1>0, <2>1, <2>3 DEF Progress
<1>8. CASE DropPlain
  <2>1. Openpgp /\ stage' = "ready" /\ scratch'["gpg"] = "whole"
    BY <1>0, <1>8, StageMoves DEF DropPlain, Progress
  <2>. QED
    BY <1>0, <2>1 DEF Progress, Artifact
<1>9. CASE MakeTemp \/ BackupStep \/ BackupBusy \/ AppendSnap \/ List \/ WalkDone
  BY <1>1, <1>9, StageMoves
<1>10. CASE \E f \in Pages : Visit(f) \/ VisitGone(f)
  BY <1>1, <1>2, <1>10 DEF Visit, VisitGone, Upcoming, CaptureFails
<1>. QED
  BY <1>3, <1>4, <1>5, <1>6, <1>7, <1>8, <1>9, <1>10 DEF CaptureStep

LEMMA ProgressKept == TypeOK /\ NothingYet /\ Progress /\ [Next]_vars => Progress'
<1> SUFFICES ASSUME TypeOK, NothingYet, Progress, [Next]_vars PROVE Progress'
  OBVIOUS
<1>1. CASE Work
  BY <1>1, CaptureProgress DEF Work, preVars, runVars, Openpgp
<1>2. CASE WorkFails
  BY <1>2 DEF WorkFails, CaptureFails, Progress
<1>3. CASE UNCHANGED <<request, stage, scratch>> /\ (Running' => Running)
  BY <1>3 DEF Progress, Openpgp, Artifact
<1>4. CASE GiveUp \/ Return
  <2>1. UNCHANGED <<request, stage>> /\ ~Running'
    BY <1>4, AbsentAssumption DEF GiveUp, Return, Leave, Running, preVars
  <2>. QED
    BY <2>1 DEF Progress, Openpgp
<1>5. CASE Environment /\ Running
  BY <1>3, <1>5 DEF Environment, Vaultwarden, Commit, Lock, Unlock, ChangeFile, Write, Relink,
     capVars, preVars, runVars
<1>6. CASE Check
  BY <1>3, <1>6, PreflightMoves DEF Check, capVars, runVars, Running
<1>7. CASE Refused \/ DeliverNext \/ DeliverNextFails \/ Kill \/ UNCHANGED vars
  BY <1>3, <1>7 DEF Refused, DeliverNext, DeliverNextFails, Delivering, Kill, Running, vars, preVars, capVars,
     runVars
<1>. QED
  BY <1>1, <1>2, <1>4, <1>5, <1>6, <1>7 DEF Next, ProgramStep, Fault, Done

LEMMA PlacedKept ==
    TypeOK /\ NothingYet /\ Progress /\ Placed /\ [Next]_vars => Placed'
<1> SUFFICES ASSUME TypeOK, NothingYet, Progress, Placed, [Next]_vars PROVE Placed'
  OBVIOUS
<1>1. CASE DeliverNext
  <2> DEFINE d == Destinations[next]
  <2>1. UNCHANGED <<request, at, targets>> /\ Running /\ stage = "ready"
    BY <1>1 DEF DeliverNext, Delivering, preVars
  <2>2. Accepted /\ Accepted' /\ Artifact' = Artifact /\ scratch[Artifact] = "whole"
    BY <2>1 DEF NothingYet, Accepted, Checks, Artifact, Openpgp, Progress
  <2>3. d \in Range(targets) \cup {Bucket}
    <3>1. targets \in Seq(dirs) /\ next \in 1..Len(Destinations)
      BY <1>1, DestinationsTyped DEF TypeOK, PreTypeOK, DeliverNext, Delivering, Destinations, BucketIfAsked
    <3>2. CASE next <= Len(targets)
      <4>1. d = targets[next] /\ next \in DOMAIN targets
        BY <3>1, <3>2 DEF Destinations, BucketIfAsked
      <4>. QED
        BY <4>1 DEF Range
    <3>3. CASE next > Len(targets)
      <4>1. d = Bucket
        BY <3>1, <3>3 DEF Destinations, BucketIfAsked
      <4>. QED
        BY <4>1
    <3>. QED
      BY <3>1, <3>2, <3>3
  <2>4. holds' = [holds EXCEPT ![d] = [kind |-> Artifact, state |-> "whole"]]
    BY <1>1, <2>2 DEF DeliverNext
  <2>5. ASSUME NEW p \in DOMAIN holds, holds'[p] # Absent
        PROVE  /\ p \in Range(targets) \cup {Bucket}
               /\ holds'[p] = [kind |-> Artifact, state |-> "whole"]
    BY <2>3, <2>4, <2>5 DEF Placed
  <2>. QED
    BY <2>1, <2>2, <2>4, <2>5 DEF Placed, Range
<1>2. CASE Check
  <2>1. ~Accepted /\ UNCHANGED holds
    BY <1>2, PreflightMoves DEF Check, runVars
  <2>. QED
    BY <2>1 DEF Placed
<1>3. CASE ~Check /\ ~DeliverNext
  <2>1. UNCHANGED holds
    BY <1>3 DEF Next, ProgramStep, Fault, Environment, Done, Refused, Work, WorkFails,
       DeliverNextFails, GiveUp, Return, Leave, Kill, vars, runVars
  <2>2. UNCHANGED <<request, at, targets>>
    BY <1>3, OthersLeaveChecks
  <2>. QED
    BY <2>1, <2>2 DEF Placed, Accepted, Checks, Range, Artifact, Openpgp
<1>. QED
  BY <1>1, <1>2, <1>3

\* A step of the work leaves nothing of what it has used up.
LEMMA CaptureConsumes ==
    ASSUME TypeOK, Consumed, NEW b \in BOOLEAN, b = Openpgp, CaptureStep(b),
           UNCHANGED <<request, holds>>
    PROVE  Consumed'
<1>0. /\ Kinds = {"snap", "tgz.part", "tgz", "gpg.part", "gpg"}
      /\ scratch \in [Kinds -> {"absent", "partial", "whole"}]
      /\ Openpgp' = Openpgp
  BY DEF Kinds, TypeOK, CaptureTypeOK, Openpgp
<1>1. stage # "ready" /\ \A p \in DOMAIN holds : holds[p] = Absent
  <2>1. stage # "ready"
    BY DEF CaptureStep, MakeTemp, BackupStep, BackupBusy, AppendSnap, List, Visit, VisitGone,
       Upcoming, WalkDone, Finish, Publish, DropSnap, Gpg, GpgRename, DropPlain
  <2>. QED
    BY <2>1 DEF Consumed
<1>2. CASE stage' \in {"temp", "snapshot", "append", "list", "walk", "finish", "publish", "failed"}
  BY <1>1, <1>2 DEF Consumed
<1>3. CASE Publish
  <2>1. stage' = "drop"
    BY <1>3, StageMoves
  <2>2. scratch'["tgz.part"] = "absent"
    BY <1>0, <1>3 DEF Publish, Renamed
  <2>. QED
    BY <1>1, <2>1, <2>2 DEF Consumed
<1>4. CASE DropSnap(b)
  <2>1. scratch["tgz.part"] = "absent"
    BY <1>4 DEF DropSnap, Consumed
  <2>2. scratch'["tgz.part"] = "absent"
    BY <1>0, <1>4, <2>1 DEF DropSnap
  <2>3. (b /\ stage' = "gpg") \/ (~b /\ stage' = "ready")
    BY <1>4, Order DEF DropSnap
  <2>. QED
    BY <1>0, <1>1, <2>2, <2>3 DEF Consumed
<1>5. CASE Gpg
  <2>1. stage' = "gpgRename" /\ scratch["tgz.part"] = "absent"
    BY <1>5, StageMoves DEF Gpg, Consumed
  <2>2. scratch'["tgz.part"] = "absent"
    BY <1>0, <1>5, <2>1 DEF Gpg
  <2>. QED
    BY <1>1, <2>1, <2>2 DEF Consumed
<1>6. CASE GpgRename
  <2>1. stage' = "dropPlain" /\ scratch["tgz.part"] = "absent"
    BY <1>6, StageMoves DEF GpgRename, Consumed
  <2>2. scratch'["tgz.part"] = "absent"
    BY <1>0, <1>6, <2>1 DEF GpgRename, Renamed
  <2>. QED
    BY <1>1, <2>1, <2>2 DEF Consumed
<1>7. CASE DropPlain
  <2>1. scratch["tgz.part"] = "absent"
    BY <1>7 DEF DropPlain, Consumed
  <2>2. scratch'["tgz.part"] = "absent" /\ scratch'["tgz"] = "absent"
    BY <1>0, <1>7, <2>1 DEF DropPlain
  <2>. QED
    BY <1>1, <2>2 DEF Consumed
<1>8. CASE MakeTemp \/ BackupStep \/ BackupBusy \/ AppendSnap \/ List \/ WalkDone \/ Finish
  BY <1>2, <1>8, StageMoves
<1>9. CASE \E f \in Pages : Visit(f) \/ VisitGone(f)
  BY <1>2, <1>9 DEF Visit, VisitGone, Upcoming, CaptureFails
<1>. QED
  BY <1>3, <1>4, <1>5, <1>6, <1>7, <1>8, <1>9 DEF CaptureStep

LEMMA ConsumedKept == TypeOK /\ NothingYet /\ Consumed /\ [Next]_vars => Consumed'
<1> SUFFICES ASSUME TypeOK, NothingYet, Consumed, [Next]_vars PROVE Consumed'
  OBVIOUS
<1>1. CASE Work
  BY <1>1, CaptureConsumes DEF Work, preVars, runVars, Openpgp
<1>2. CASE WorkFails
  <2>1. stage # "ready" /\ stage' = "failed" /\ UNCHANGED holds
    BY <1>2 DEF WorkFails, CaptureFails, runVars
  <2>. QED
    BY <2>1 DEF Consumed
<1>3. CASE UNCHANGED <<request, stage, scratch, holds>>
  BY <1>3 DEF Consumed, Openpgp
<1>4. CASE GiveUp \/ Return
  <2>1. UNCHANGED <<request, stage, holds>> /\ scratch' \in Leftovers
    BY <1>4 DEF GiveUp, Return, Leave, preVars
  <2>2. \A k \in Kinds : scratch[k] = "absent" => scratch'[k] = "absent"
    BY <2>1 DEF Leftovers
  <2>. QED
    BY <2>1, <2>2 DEF Consumed, Openpgp, Kinds
<1>5. CASE DeliverNext
  <2>1. stage = "ready" /\ UNCHANGED <<request, stage, scratch>>
    BY <1>5 DEF DeliverNext, Delivering, preVars, capVars
  <2>. QED
    BY <2>1 DEF Consumed, Openpgp
<1>6. CASE Check
  BY <1>3, <1>6, PreflightMoves DEF Check, capVars, runVars
<1>7. CASE Environment
  BY <1>3, <1>7 DEF Environment, Vaultwarden, Commit, Lock, Unlock, ChangeFile, Write, Relink,
     capVars, preVars, runVars
<1>8. CASE Refused \/ DeliverNextFails \/ Kill \/ UNCHANGED vars
  BY <1>3, <1>8 DEF Refused, DeliverNextFails, Kill, vars, preVars, capVars, runVars
<1>. QED
  BY <1>1, <1>2, <1>4, <1>5, <1>6, <1>7, <1>8 DEF Next, ProgramStep, Fault, Done

-----------------------------------------------------------------------------
(* The snapshot, and the destinations one by one.                          *)

\* A step of the online backup copies what the database holds now.
LEMMA BackupStepSnaps ==
    ASSUME CaptureTypeOK, Snapped, BackupStep
    PROVE  /\ Snapped'
           /\ copied < NumPages
           /\ copied' = NumPages => snap' = db
           /\ UNCHANGED db
<1>1. /\ stage = "snapshot" /\ copied' = Upto(Resume) /\ stale' = FALSE /\ db' = db
      /\ snap' = {p \in snap : p <= Resume} \cup {p \in db : Resume < p /\ p <= copied'}
  BY DEF BackupStep
<1>2. copied \in Nat /\ NumPages \in Nat /\ copied < NumPages /\ snap \subseteq Pages /\ db \subseteq Pages
      /\ PagesPerStep \in Nat /\ Pages = 1..NumPages
  BY <1>1, PagesAssumption DEF CaptureTypeOK, Snapped, Pages
<1>3. copied' \in Nat /\ copied' <= NumPages /\ Resume \in Nat /\ Resume <= copied'
  BY <1>1, <1>2 DEF Upto, Resume
<1>4. snap' = {p \in db : p <= copied'}
  <2>1. CASE stale
    <3>1. Resume = 0
      BY <2>1 DEF Resume
    <3>2. \A p \in Pages : 0 < p /\ ~(p <= 0)
      BY <1>2
    <3>. QED
      BY <1>1, <1>2, <3>1, <3>2
  <2>2. CASE ~stale
    <3>1. Resume = copied /\ snap = {p \in db : p <= copied}
      BY <1>1, <2>2 DEF Resume, Snapped
    <3>2. \A p \in Pages : p <= copied' <=> p <= copied \/ (copied < p /\ p <= copied')
      BY <1>2, <1>3, <3>1
    <3>. QED
      BY <1>1, <1>2, <3>1, <3>2
  <2>. QED
    BY <2>1, <2>2
<1>5. ASSUME copied' = NumPages
      PROVE  snap' = db
  <2>1. \A p \in db : p <= copied'
    BY <1>2, <1>5
  <2>. QED
    BY <1>4, <2>1
<1>6. CASE copied' < NumPages
  <2>1. stage' = "snapshot"
    BY <1>1, <1>6 DEF BackupStep
  <2>. QED
    BY <1>1, <1>2, <1>4, <1>5, <1>6, <2>1 DEF Snapped
<1>7. CASE ~(copied' < NumPages)
  <2>1. stage' = "append"
    BY <1>7, Order DEF BackupStep
  <2>2. copied' = NumPages
    BY <1>2, <1>3, <1>7
  <2>. QED
    BY <1>1, <1>2, <1>5, <2>1, <2>2 DEF Snapped
<1>. QED
  BY <1>6, <1>7

\* No other step of the work touches the snapshot.
LEMMA CaptureSnaps ==
    ASSUME CaptureTypeOK, Snapped, NEW b \in BOOLEAN, CaptureStep(b), ~BackupStep
    PROVE  Snapped' /\ UNCHANGED <<db, snap, copied>>
<1>1. CASE MakeTemp
  <2>1. stage' = "snapshot"
    BY <1>1, Order DEF MakeTemp
  <2>2. 0 < NumPages /\ \A p \in Pages : ~(p <= 0)
    BY PagesAssumption DEF Pages
  <2>. QED
    BY <1>1, <2>1, <2>2 DEF MakeTemp, Snapped, CaptureTypeOK
<1>2. CASE BackupBusy \/ \E f \in Pages : VisitGone(f)
  BY <1>2 DEF BackupBusy, VisitGone, CaptureFails, Snapped
<1>3. CASE AppendSnap \/ List \/ WalkDone \/ Finish \/ Publish \/ Gpg \/ GpgRename \/ DropPlain
  <2>1. stage' \notin {"temp", "snapshot", "failed"}
    BY <1>3, StageMoves
  <2>2. stage \notin {"temp", "snapshot", "failed"} /\ UNCHANGED <<db, snap, copied>>
    BY <1>3 DEF AppendSnap, List, WalkDone, Finish, Publish, Gpg, GpgRename, DropPlain
  <2>. QED
    BY <2>1, <2>2 DEF Snapped
<1>4. CASE DropSnap(b)
  BY <1>4, Order DEF DropSnap, Snapped
<1>5. CASE \E f \in Pages : Visit(f)
  BY <1>5 DEF Visit, Upcoming, Snapped
<1>. QED
  BY <1>1, <1>2, <1>3, <1>4, <1>5 DEF CaptureStep

LEMMA SnappedKept == TypeOK /\ Snapped /\ [Next]_vars => Snapped'
<1> SUFFICES ASSUME TypeOK, Snapped, [Next]_vars PROVE Snapped'
  OBVIOUS
<1>1. CaptureTypeOK /\ Openpgp \in BOOLEAN
  BY DEF TypeOK, Openpgp
<1>2. CASE Work
  BY <1>1, <1>2, BackupStepSnaps, CaptureSnaps DEF Work
<1>3. CASE WorkFails
  BY <1>3 DEF WorkFails, CaptureFails, Snapped
<1>4. CASE Vaultwarden
  BY <1>4 DEF Vaultwarden, Commit, Lock, Unlock, ChangeFile, Write, Snapped
<1>5. CASE UNCHANGED <<db, stage, snap, copied, stale>>
  BY <1>5 DEF Snapped
<1>. QED
  BY <1>2, <1>3, <1>4, <1>5 DEF Next, ProgramStep, Fault, Environment, Done, Check, Refused,
     DeliverNext, DeliverNextFails, GiveUp, Return, Leave, Kill, vars, capVars

\* Distinct targets, and the object, are distinct destinations.
LEMMA DestinationsDistinct ==
    ASSUME TypeOK, \A i, j \in DOMAIN targets : targets[i] = targets[j] => i = j,
           NEW i \in 1..Len(Destinations), NEW j \in 1..Len(Destinations),
           Destinations[i] = Destinations[j]
    PROVE  i = j
<1>1. targets \in Seq(Places)
  BY SeqGrows DEF TypeOK, PreTypeOK
<1>2. \A k \in 1..Len(targets) : k \in DOMAIN targets /\ targets[k] \in Places
  BY <1>1
<1>3. \A k \in 1..Len(Destinations) :
         \/ k \in 1..Len(targets) /\ Destinations[k] = targets[k]
         \/ k = Len(targets) + 1 /\ Destinations[k] = Bucket
  BY <1>1 DEF Destinations, BucketIfAsked
<1>. QED
  BY <1>2, <1>3, BucketAssumption

\* Canonicalize takes no directory twice.
LEMMA TargetsStayDistinct ==
    ASSUME TypeOK, PreflightStep, \A i, j \in DOMAIN targets : targets[i] = targets[j] => i = j
    PROVE  \A i, j \in DOMAIN targets' : targets'[i] = targets'[j] => i = j
<1>1. CASE Canonicalize /\ targets' # targets
  <2> DEFINE d == link[Head(pending)]
  <2>1. targets' = Append(targets, d) /\ d \notin Range(targets) /\ targets \in Seq(dirs)
    BY <1>1 DEF Canonicalize, NewTarget, TypeOK, PreTypeOK
  <2>2. \A i \in DOMAIN targets : targets[i] # d
    BY <2>1 DEF Range
  <2>3. Len(targets) \in Nat /\ DOMAIN targets = 1..Len(targets)
        /\ DOMAIN targets' = 1..(Len(targets) + 1)
        /\ \A i \in DOMAIN targets : targets'[i] = targets[i]
        /\ targets'[Len(targets) + 1] = d
    BY <2>1
  <2>. QED
    BY <2>2, <2>3
<1>2. CASE ~Canonicalize
  BY <1>2 DEF PreflightStep, Look, LookFails, FindSource, NoSource, MakeDir, MakeDirFails,
     AllDirs, Pass, Refuse
<1>. QED
  BY <1>1, <1>2

LEMMA OneByOneKept ==
    TypeOK /\ NothingYet /\ Placed /\ OneByOne /\ [Next]_vars => OneByOne'
<1> SUFFICES ASSUME TypeOK, NothingYet, Placed, OneByOne, [Next]_vars PROVE OneByOne'
  OBVIOUS
<1>0. targets \in Seq(dirs) /\ Len(Destinations) \in Nat /\ next \in Nat /\ next >= 1
      /\ delivered \in Seq(dirs \cup {Bucket}) /\ Len(delivered) \in Nat
  BY DestinationsTyped DEF TypeOK, PreTypeOK, Destinations, BucketIfAsked
<1>1. CASE Check
  <2>1. /\ ~Accepted /\ next = 1 /\ delivered = <<>> /\ UNCHANGED <<holds, next, delivered, failed, result>>
        /\ Running
    BY <1>1, PreflightMoves DEF Check, NothingYet, runVars
  <2>2. \A i, j \in DOMAIN targets' : targets'[i] = targets'[j] => i = j
    BY <1>1, TargetsStayDistinct DEF Check, OneByOne
  <2>3. \A p \in DOMAIN holds : holds[p] = Absent
    BY <2>1 DEF Placed
  <2>4. result # "ok"
    BY <2>1, AbsentAssumption DEF Running
  <2>. QED
    BY <2>1, <2>2, <2>3, <2>4 DEF OneByOne
<1>2. ASSUME ~Check
      PROVE  UNCHANGED <<targets, Destinations>>
  BY <1>2, OthersLeaveChecks DEF Destinations, BucketIfAsked
<1>3. CASE DeliverNext
  <2> DEFINE d == Destinations[next]
  <2>1. UNCHANGED <<targets, Destinations, failed, result>> /\ next \in 1..Len(Destinations) /\ result = Absent
    BY <1>0, <1>3 DEF DeliverNext, Delivering, Running, preVars, Destinations, BucketIfAsked
  <2>2. next' = next + 1 /\ delivered' = Append(delivered, d)
        /\ \E c \in [kind : Kinds, state : {"absent", "partial", "whole"}] : holds' = [holds EXCEPT ![d] = c]
    <3>1. Artifact \in Kinds /\ scratch[Artifact] \in {"absent", "partial", "whole"}
      BY DEF Artifact, Kinds, TypeOK, CaptureTypeOK
    <3>. QED
      BY <1>3, <3>1 DEF DeliverNext
  <2>3. d \in DOMAIN holds
    <3>1. Destinations \in Seq(dirs \cup {Bucket})
      BY DestinationsTyped DEF TypeOK, PreTypeOK, Destinations, BucketIfAsked
    <3>2. d \in dirs \cup {Bucket}
      BY <2>1, <3>1, ElementOfSeq
    <3>. QED
      BY <3>2 DEF TypeOK, PreTypeOK
  <2>4. holds'[d] # Absent /\ \A p \in DOMAIN holds \ {d} : holds'[p] = holds[p]
    BY <2>2, <2>3, AbsentAssumption
  <2>5. DOMAIN holds' = DOMAIN holds
    BY <2>2
  <2>6. \A p \in DOMAIN holds' : holds'[p] # Absent => \E i \in 1..next' - 1 : p = Destinations'[i]
    <3> SUFFICES ASSUME NEW p \in DOMAIN holds, holds'[p] # Absent
                 PROVE  \E i \in 1..next : p = Destinations[i]
      BY <1>0, <2>1, <2>2, <2>5
    <3>1. CASE p = d
      BY <1>0, <3>1
    <3>2. CASE p # d
      <4>1. PICK i \in 1..next - 1 : p = Destinations[i]
        BY <2>4, <3>2 DEF OneByOne
      <4>. QED
        BY <1>0, <4>1
    <3>. QED
      BY <3>1, <3>2
  <2>7. ASSUME ~failed
        PROVE  /\ Len(delivered') = next' - 1
               /\ \A i \in 1..next' - 1 :
                     delivered'[i] = Destinations[i] /\ holds'[Destinations[i]] # Absent
    <3>1. Len(delivered) = next - 1 /\ \A i \in 1..next - 1 :
             delivered[i] = Destinations[i] /\ holds[Destinations[i]] # Absent
      BY <2>7 DEF OneByOne
    <3>2. Len(delivered') = next /\ delivered'[next] = d
          /\ \A i \in 1..next - 1 : delivered'[i] = delivered[i]
      BY <1>0, <2>2, <3>1
    <3>3. \A i \in 1..next - 1 : Destinations[i] \in DOMAIN holds
      <4>1. Destinations \in Seq(dirs \cup {Bucket})
        BY DestinationsTyped DEF TypeOK, PreTypeOK, Destinations, BucketIfAsked
      <4>2. \A i \in 1..next - 1 : Destinations[i] \in dirs \cup {Bucket}
        BY <1>0, <2>1, <4>1, ElementOfSeq
      <4>. QED
        BY <4>2 DEF TypeOK, PreTypeOK
    <3>. QED
      BY <1>0, <2>2, <2>4, <3>1, <3>2, <3>3
  <2>8. result' # "ok"
    BY <2>1, AbsentAssumption
  <2>. QED
    BY <2>1, <2>6, <2>7, <2>8 DEF OneByOne
<1>4. CASE DeliverNextFails
  <2>1. /\ UNCHANGED <<targets, Destinations, holds, result>> /\ result = Absent
        /\ next' = next + 1 /\ failed' = TRUE
    BY <1>4 DEF DeliverNextFails, Delivering, Running, preVars, Destinations, BucketIfAsked
  <2>2. \A p \in DOMAIN holds' : holds'[p] # Absent => \E i \in 1..next' - 1 : p = Destinations'[i]
    BY <1>0, <2>1 DEF OneByOne
  <2>. QED
    BY <2>1, <2>2, AbsentAssumption DEF OneByOne
<1>5. CASE Return
  <2>1. UNCHANGED <<targets, Destinations, holds, next, delivered, failed>>
    BY <1>5 DEF Return, Leave, preVars, Destinations, BucketIfAsked
  <2>2. result' = "ok" => ~failed /\ next = Len(Destinations) + 1
    BY <1>0, <1>5 DEF Return, Leave, Succeeded, TypeOK
  <2>. QED
    BY <2>1, <2>2 DEF OneByOne
<1>6. CASE GiveUp \/ Refused \/ Kill
  <2>1. UNCHANGED <<targets, Destinations, holds, next, delivered, failed>> /\ result' # "ok"
    BY <1>6 DEF GiveUp, Leave, Refused, Kill, preVars, Destinations, BucketIfAsked
  <2>. QED
    BY <2>1 DEF OneByOne
<1>7. CASE ~Check /\ UNCHANGED runVars
  BY <1>2, <1>7 DEF OneByOne, runVars
<1>. QED
  BY <1>1, <1>3, <1>4, <1>5, <1>6, <1>7 DEF Next, ProgramStep, Fault, Environment, Done, Work, WorkFails, vars

-----------------------------------------------------------------------------
(* The theorems.                                                           *)

LEMMA InitEstablishes == Init => BackupInv
<1> SUFFICES ASSUME Init PROVE BackupInv
  OBVIOUS
<1>1. at = 1 /\ refusedBy = Absent /\ stage = "temp" /\ scratch = NoScratch
      /\ next = 1 /\ delivered = <<>> /\ archived = {}
      /\ holds = [p \in Places \cup {Bucket} |-> Absent]
  BY DEF Init, InitPreflight, InitCapture
<1>2. Vetted
  BY <1>1, CheckMeaning DEF Vetted
<1>3. NothingYet /\ Unwalked /\ Progress /\ Placed /\ Consumed
  BY <1>1 DEF NothingYet, Unwalked, Progress, Placed, Consumed
<1>4. Snapped
  BY <1>1 DEF Snapped, Init, InitCapture
<1>5. OneByOne
  BY <1>1, AbsentAssumption DEF OneByOne, Init, InitPreflight
<1>. QED
  BY <1>2, <1>3, <1>4, <1>5, InitTyped DEF BackupInv

LEMMA StepKeeps == BackupInv /\ [Next]_vars => BackupInv'
BY NextTyped, VettedKept, NothingKept, SnappedKept, ProgressKept, PlacedKept, OneByOneKept,
   ConsumedKept DEF BackupInv

\* The inductive invariant of BackupRun holds in every run, for any file
\* system, command lines, links, numbers of pages and faults.
THEOREM BackupInvariant == Spec => []BackupInv
<1>. QED
  BY InitEstablishes, StepKeeps, PTL DEF Spec

\* All variables keep their types: of the checks (Preflight), of the work
\* (Capture), and of the deliveries.
THEOREM BackupTyped == Spec => []TypeOK
<1>1. BackupInv => TypeOK
  BY DEF BackupInv
<1>. QED
  BY <1>1, BackupInvariant, PTL

\* run's nesting check is enough: the archive never lands in the directory it
\* is made from, above it or below it, though links move between the check and
\* the delivery, because delivery goes by the canonicalized paths.
THEOREM ArchiveStaysOutside == Spec => []ArchiveOutsideSource
<1>1. BackupInv => ArchiveOutsideSource
  <2> SUFFICES ASSUME BackupInv, NEW p \in Places, holds[p] # Absent PROVE ~Related(p, source)
    BY DEF ArchiveOutsideSource
  <2>1. p \in Range(targets) /\ Accepted
    BY BucketAssumption DEF BackupInv, Placed, TypeOK
  <2>2. PICK i \in DOMAIN targets : p = targets[i]
    BY <2>1 DEF Range
  <2>3. Passed("nesting")
    <3>1. at \in Nat
      BY AtNat DEF BackupInv, TypeOK
    <3>2. at > 9
      BY <2>1, <3>1, CheckMeaning
    <3>. QED
      BY <3>1, <3>2, CheckMeaning
  <2>. QED
    BY <2>2, <2>3 DEF BackupInv, Vetted
<1>. QED
  BY <1>1, BackupInvariant, PTL

\* What deliver and upload hand out is whole, and it is ciphertext exactly when
\* the command line names recipients.
THEOREM DeliveredIsDeclared == Spec => []DeliveredAsDeclared
<1>1. BackupInv => DeliveredAsDeclared
  <2> SUFFICES ASSUME BackupInv, NEW p \in DOMAIN holds, holds[p] # Absent
               PROVE  /\ holds[p].state = "whole"
                      /\ (holds[p].kind = "gpg") <=> (request.recipients # {})
    BY DEF DeliveredAsDeclared
  <2>1. Accepted /\ holds[p] = [kind |-> Artifact, state |-> "whole"]
    BY DEF BackupInv, Placed
  <2>2. Passed("mode")
    <3>1. at \in Nat
      BY AtNat DEF BackupInv, TypeOK
    <3>2. at > 9
      BY <2>1, <3>1, CheckMeaning
    <3>. QED
      BY <3>1, <3>2, CheckMeaning
  <2>3. Openpgp <=> request.recipients # {}
    BY <2>2 DEF BackupInv, Vetted, ModeWrong, Openpgp
  <2>. QED
    BY <2>1, <2>3 DEF Artifact
<1>. QED
  BY <1>1, BackupInvariant, PTL

\* A run that returns success has delivered to each destination once, in their
\* order, though one directory may be declared under several spellings.
THEOREM EachReportedOnce == Spec => []ReportedOnce
<1>1. BackupInv => ReportedOnce
  <2> SUFFICES ASSUME BackupInv, result = "ok" PROVE ReportedOnce
    BY DEF ReportedOnce
  <2>1. targets \in Seq(dirs) /\ delivered \in Seq(dirs \cup {Bucket})
    BY DEF BackupInv, TypeOK, PreTypeOK
  <2>2. Destinations \in Seq(dirs \cup {Bucket}) /\ Len(Destinations) \in Nat
    BY <2>1, DestinationsTyped DEF Destinations, BucketIfAsked
  <2>3. /\ next = Len(Destinations) + 1 /\ Len(delivered) = next - 1
        /\ \A i \in 1..next - 1 :
              delivered[i] = Destinations[i] /\ holds[Destinations[i]] # Absent
    BY DEF BackupInv, OneByOne
  <2>4. delivered = Destinations
    <3>1. Len(delivered) = Len(Destinations) /\ \A i \in 1..Len(delivered) : delivered[i] = Destinations[i]
      BY <2>2, <2>3
    <3>. QED
      BY <2>1, <2>2, <3>1, SeqEqual
  <2>5. \A i, j \in DOMAIN delivered : delivered[i] = delivered[j] => i = j
    BY <2>2, <2>4, DestinationsDistinct DEF BackupInv, OneByOne
  <2>6. \A p \in Range(delivered) : holds[p] # Absent
    BY <2>2, <2>3, <2>4 DEF Range
  <2>. QED
    BY <2>4, <2>5, <2>6 DEF ReportedOnce
<1>. QED
  BY <1>1, BackupInvariant, PTL

\* The plaintext of an encrypted run, published or in part, is gone from
\* scratch before the ciphertext is at any destination (encrypt fails when it
\* cannot remove it), and stays gone however the run ends, be it that its
\* scratch directory outlives it.
THEOREM PlaintextAlwaysGone == Spec => []PlaintextGone
<1>1. BackupInv => PlaintextGone
  BY DEF BackupInv, Consumed, PlaintextGone
<1>. QED
  BY <1>1, BackupInvariant, PTL

-----------------------------------------------------------------------------
(* Rows and files.                                                         *)

\* A file that is there from the end of the snapshot on is listed, and what
\* was listed is archived unless the walk fails.
Walked ==
    /\ stage = "walk" => kept \subseteq listed \cup archived
    /\ stage \in {"finish", "publish", "drop", "gpg", "gpgRename", "dropPlain", "ready"}
          => kept \subseteq archived

LEMMA CaptureWalks ==
    ASSUME CaptureTypeOK, Walked, NEW b \in BOOLEAN, CaptureStep(b)
    PROVE  Walked'
<1>1. CASE MakeTemp \/ BackupBusy \/ AppendSnap
  BY <1>1, StageMoves DEF Walked
<1>2. CASE BackupStep
  <2>1. stage' \in {"snapshot", "append"}
    BY <1>2, StageMoves
  <2>. QED
    BY <2>1 DEF Walked
<1>3. CASE List
  BY <1>3, StageMoves DEF List, CaptureTypeOK, Walked
<1>4. CASE \E f \in Pages : Visit(f)
  BY <1>4 DEF Visit, Upcoming, Rest, Walked
<1>5. CASE \E f \in Pages : VisitGone(f)
  BY <1>5 DEF VisitGone, CaptureFails, Walked
<1>6. CASE WalkDone
  BY <1>6, StageMoves DEF WalkDone, Walked
<1>7. CASE Finish \/ Publish \/ Gpg \/ GpgRename \/ DropPlain
  BY <1>7, StageMoves DEF Finish, Publish, Gpg, GpgRename, DropPlain, Walked
<1>8. CASE DropSnap(b)
  BY <1>8, Order DEF DropSnap, Walked
<1>. QED
  BY <1>1, <1>2, <1>3, <1>4, <1>5, <1>6, <1>7, <1>8 DEF CaptureStep

\* A row in the archive has its file there too, if the file was there when
\* backup_sqlite ended and stayed: run takes the database before the files.
THEOREM RowsKeepFiles == Spec => []RowsHaveFiles
<1>1. Init => Walked
  BY DEF Init, InitCapture, Walked
<1>2. BackupInv /\ Walked /\ [Next]_vars => Walked'
  <2> SUFFICES ASSUME BackupInv, Walked, [Next]_vars PROVE Walked'
    OBVIOUS
  <2>1. CaptureTypeOK /\ Openpgp \in BOOLEAN
    BY DEF BackupInv, TypeOK, Openpgp
  <2>2. CASE Work
    BY <2>1, <2>2, CaptureWalks DEF Work
  <2>3. CASE WorkFails
    BY <2>3 DEF WorkFails, CaptureFails, Walked
  <2>4. CASE Vaultwarden
    BY <2>4 DEF Vaultwarden, Commit, Lock, Unlock, ChangeFile, Write, Walked
  <2>5. CASE UNCHANGED <<stage, kept, listed, archived>>
    BY <2>5 DEF Walked
  <2>. QED
    BY <2>2, <2>3, <2>4, <2>5 DEF Next, ProgramStep, Fault, Environment, Done, Check, Refused,
       DeliverNext, DeliverNextFails, GiveUp, Return, Leave, Kill, vars, capVars
<1>3. Walked => RowsHaveFiles
  BY DEF Walked, RowsHaveFiles
<1>. QED
  BY <1>1, <1>2, <1>3, BackupInvariant, PTL DEF Spec

-----------------------------------------------------------------------------
(* The checks.                                                             *)

\* Nothing is created before "dirs", and a refusal ends the checks.
Untouched ==
    /\ at < 6 => dirs = InitDirs
    /\ refusedBy # Absent => at \in DOMAIN Checks /\ Checks[at] = refusedBy

LEMMA UntouchedKept == TypeOK /\ Untouched /\ [Next]_vars => Untouched'
<1> SUFFICES ASSUME TypeOK, Untouched, [Next]_vars PROVE Untouched'
  OBVIOUS
<1>1. at \in Nat
  BY AtNat DEF TypeOK
<1>2. CASE ~Check
  <2>1. UNCHANGED <<at, refusedBy>>
    BY <1>2, OthersLeaveChecks
  <2>2. UNCHANGED dirs
    BY <1>2 DEF Next, ProgramStep, Fault, Environment, Done, Refused, Work, WorkFails, DeliverNext,
       DeliverNextFails, GiveUp, Return, Leave, Kill, Relink, vars, preVars
  <2>. QED
    BY <2>1, <2>2 DEF Untouched, Checks
<1>3. CASE Check
  <2>1. PreflightStep
    BY <1>3 DEF Check
  <2>2. CASE MakeDir \/ MakeDirFails
    <3>1. at = 6 /\ Checks[6] = "dirs" /\ 6 \in DOMAIN Checks
      BY <2>2, CheckNumbers DEF MakeDir, MakeDirFails, Checking
    <3>2. UNCHANGED <<at, Checks>> /\ refusedBy' \in {refusedBy, "dirs"}
      BY <2>2 DEF MakeDir, MakeDirFails, Checks
    <3>. QED
      BY <3>1, <3>2 DEF Untouched
  <2>3. CASE ~(MakeDir \/ MakeDirFails)
    <3>1. UNCHANGED <<dirs, Checks>> /\ refusedBy = Absent
      BY <2>1, <2>3, PreflightMoves
      DEF PreflightStep, Look, LookFails, FindSource, NoSource, Canonicalize, AllDirs, Pass, Refuse, Checks
    <3>2. at' = at \/ (at' = at + 1 /\ refusedBy' = Absent)
      BY <2>1, PreflightMoves
    <3>3. refusedBy' # Absent => at \in DOMAIN Checks /\ Checks[at] = refusedBy'
      BY <2>1, <2>3, <3>1
      DEF PreflightStep, Look, LookFails, FindSource, NoSource, Canonicalize, AllDirs, Pass, Refuse,
          Checking
    <3>. QED
      BY <1>1, <3>1, <3>2, <3>3 DEF Untouched
  <2>. QED
    BY <2>2, <2>3
<1>. QED
  BY <1>2, <1>3

\* A run refused for its flags, name, mode, recipients or source leaves the file
\* system as it was: main and run ask for all of these before create_dir_all.
THEOREM EarlyRefusalsTouchNothing == Spec => []EarlyRefusalsWriteNothing
<1>1. Init => Untouched
  BY DEF Init, InitPreflight, Untouched
<1>2. BackupInv /\ Untouched /\ [Next]_vars => Untouched'
  BY UntouchedKept DEF BackupInv
<1>3. BackupInv /\ Untouched => EarlyRefusalsWriteNothing
  <2> SUFFICES ASSUME BackupInv, Untouched,
                      refusedBy \in {"flags", "name", "mode", "recipients", "source"}
               PROVE  dirs = InitDirs
    BY DEF EarlyRefusalsWriteNothing
  <2>1. refusedBy # Absent
    BY CheckNumbers, AbsentAssumption DEF Range
  <2>2. at \in 1..9 /\ Checks[at] = refusedBy
    BY <2>1, CheckNumbers DEF Untouched
  <2>3. at < 6
    BY <2>2, CheckNumbers
  <2>. QED
    BY <2>3 DEF Untouched
<1>. QED
  BY <1>1, <1>2, <1>3, BackupInvariant, PTL DEF Spec

\* No name that check_archive_name lets pass makes a file name, of a part with
\* the longest process id included, that is too long for a file system.
THEOREM NamesAlwaysFit == Spec => []NamesFit
<1>1. BackupInv /\ (Passed("name") => ~NameWrong(request)) => NamesFit
  <2> SUFFICES ASSUME BackupInv, Accepted, Passed("name") => ~NameWrong(request)
               PROVE  request.name.length + 1 + 20 + 8 + 6 + 10 <= 255
    BY DEF NamesFit
  <2>1. Passed("name")
    <3>1. at \in Nat
      BY AtNat DEF BackupInv, TypeOK
    <3>2. at > 9
      BY <3>1, CheckMeaning
    <3>. QED
      BY <3>1, <3>2, CheckNumbers DEF Passed
  <2>2. request.name.length \in 1..200
    BY <2>1 DEF NameWrong, MaxNameBytes
  <2>. QED
    BY <2>2
<1>2. Init => (Passed("name") => ~NameWrong(request))
  BY CheckNumbers DEF Init, InitPreflight, Passed
<1>3. BackupInv /\ (Passed("name") => ~NameWrong(request)) /\ [Next]_vars
        => (Passed("name") => ~NameWrong(request))'
  <2> SUFFICES ASSUME BackupInv, Passed("name") => ~NameWrong(request), [Next]_vars, Passed("name")'
               PROVE  ~NameWrong(request)'
    OBVIOUS
  <2>1. at \in Nat /\ (Passed("name") <=> at > 2) /\ at' > 2
    <3>1. at \in Nat /\ (Passed("name") <=> at > 2)
      BY AtNat, CheckNumbers DEF BackupInv, TypeOK, Passed
    <3>2. (Passed("name"))' => at' > 2
      BY CheckNumbers DEF Passed
    <3>. QED
      BY <3>1, <3>2
  <2>2. CASE ~Check
    BY <2>1, <2>2, OthersLeaveChecks DEF NameWrong
  <2>3. CASE Check
    <3>1. PreflightStep /\ UNCHANGED request /\ (at' = at \/ at' = at + 1)
      BY <2>3, PreflightMoves DEF Check, BackupInv
    <3>2. CASE at > 2
      BY <2>1, <3>1, <3>2 DEF NameWrong
    <3>3. CASE at = 2 /\ at' = 3
      <4>1. PICK c \in Range(Checks) : Look(c)
        BY <3>1, <3>3, CheckNumbers
        DEF PreflightStep, LookFails, FindSource, NoSource, MakeDir, MakeDirFails, Canonicalize,
            AllDirs, Refuse, Checking
      <4>2. c = "name"
        BY <3>3, <4>1, CheckNumbers DEF Look, Checking
      <4>. QED
        BY <3>1, <4>1, <4>2 DEF Look, Wrong, NameWrong
    <3>. QED
      BY <2>1, <3>1, <3>2, <3>3
  <2>. QED
    BY <2>2, <2>3
<1>. QED
  BY <1>1, <1>2, <1>3, BackupInvariant, PTL DEF Spec
=============================================================================
