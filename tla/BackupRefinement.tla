-------------------------- MODULE BackupRefinement --------------------------
(***************************************************************************)
(* Proof that BackupRun implements AtomicBackup, for all values of its     *)
(* constants.                                                              *)
(***************************************************************************)
EXTENDS BackupProofs

\* The variables of AtomicBackup, mapped.
Copies == {p \in DOMAIN holds : holds[p] # Absent}
Declared == Range(Destinations)
mapped == <<db, CapturedRows, Declared, Copies, result>>

LEMMA InitMaps == Init => Atomic!Init
<1> SUFFICES ASSUME Init PROVE Atomic!Init
  OBVIOUS
<1>1. db \subseteq Pages /\ CapturedRows = Absent
  BY PagesAssumption DEF Init, InitCapture, CapturedRows
<1>2. Declared \subseteq Places \cup {Bucket} /\ Copies = {} /\ result = Absent
  <2>1. targets = <<>>
    BY DEF Init, InitPreflight
  <2>2. \A i \in DOMAIN Destinations : Destinations[i] = Bucket
    BY <2>1 DEF Destinations, BucketIfAsked
  <2>. QED
    BY <2>2 DEF Declared, Range, Copies, Init
<1>. QED
  BY <1>1, <1>2 DEF Atomic!Init, Declared, Copies

\* All destinations are places, or the object.
LEMMA DeclaredIn ==
    ASSUME NEW S, NEW t \in Seq(S), NEW r \in {<<>>, <<Bucket>>}
    PROVE  Range(t \o r) \subseteq S \cup {Bucket}
<1>1. t \o r \in Seq(S \cup {Bucket}) /\ Len(t \o r) \in Nat
  BY DestinationsTyped
<1>2. \A i \in DOMAIN (t \o r) : (t \o r)[i] \in S \cup {Bucket}
  BY <1>1
<1>. QED
  BY <1>2 DEF Range

\* There is a capture exactly when all pages have been copied.
LEMMA CapturedWhen ==
    ASSUME TypeOK
    PROVE  /\ CapturedRows = Absent <=> copied # NumPages
           /\ copied = NumPages => CapturedRows = snap
BY AbsentAssumption DEF TypeOK, CaptureTypeOK, CapturedRows

\* A destination may hold something.
LEMMA DestinationsHold ==
    ASSUME TypeOK
    PROVE  /\ Destinations \in Seq(dirs \cup {Bucket}) /\ Len(Destinations) \in Nat
           /\ DOMAIN Destinations = 1..Len(Destinations)
           /\ \A i \in 1..Len(Destinations) : Destinations[i] \in DOMAIN holds
<1>1. targets \in Seq(dirs) /\ dirs \cup {Bucket} \subseteq DOMAIN holds
  BY DEF TypeOK, PreTypeOK
<1>2. Destinations \in Seq(dirs \cup {Bucket}) /\ Len(Destinations) \in Nat
  BY <1>1, DestinationsTyped DEF Destinations, BucketIfAsked
<1>3. \A i \in 1..Len(Destinations) : Destinations[i] \in dirs \cup {Bucket}
  BY <1>2, ElementOfSeq
<1>. QED
  BY <1>1, <1>2, <1>3

LEMMA StepMaps == BackupInv /\ [Next]_vars => [Atomic!Next]_mapped
<1> SUFFICES ASSUME BackupInv, [Next]_vars PROVE [Atomic!Next]_mapped
  OBVIOUS
<1> USE DEF BackupInv
<1>0. NumPages # 0 /\ CaptureTypeOK /\ Openpgp \in BOOLEAN
  BY PagesAssumption DEF TypeOK, Openpgp
<1>1. ASSUME ~Check
      PROVE  UNCHANGED Declared
  BY <1>1, OthersLeaveChecks DEF Declared, Range, Destinations, BucketIfAsked
<1>2. CASE Check
  <2>1. UNCHANGED <<db, CapturedRows, Copies, result>>
    BY <1>2 DEF Check, capVars, runVars, CapturedRows, Copies
  <2>2. result = Absent /\ CapturedRows = Absent
    <3>1. ~Accepted
      BY <1>2, PreflightMoves DEF Check
    <3>2. copied = 0
      BY <3>1 DEF NothingYet, Snapped
    <3>. QED
      BY <1>0, <1>2, <3>2 DEF CapturedRows, Check, Running
  <2>3. Declared' \subseteq Places \cup {Bucket}
    <3>1. PreTypeOK'
      BY <1>2, PreTyped DEF Check, TypeOK
    <3>2. Declared' \subseteq dirs' \cup {Bucket}
      BY <3>1, DeclaredIn DEF PreTypeOK, Declared, Destinations, BucketIfAsked
    <3>. QED
      BY <3>1, <3>2 DEF PreTypeOK
  <2>. QED
    BY <2>1, <2>2, <2>3 DEF Atomic!Next, Atomic!Declare, Declared, Copies
<1>3. CASE Work
  <2>1. UNCHANGED <<Declared, Copies, result>> /\ result = Absent
    BY <1>1, <1>3, PreflightMoves DEF Work, Check, runVars, Copies, Running
  <2>2. CASE BackupStep
    <3>1. copied < NumPages /\ (copied' = NumPages => snap' = db) /\ UNCHANGED db
      BY <1>0, <2>2, BackupStepSnaps
    <3>2. copied # NumPages
      BY <1>0, <3>1, PagesAssumption DEF CaptureTypeOK
    <3>3. CASE copied' = NumPages
      <4>1. CapturedRows = Absent /\ CapturedRows' = db
        BY <3>1, <3>2, <3>3 DEF CapturedRows
      <4>. QED
        BY <2>1, <3>1, <4>1 DEF Atomic!Next, Atomic!Capture, Declared, Copies
    <3>4. CASE copied' # NumPages
      BY <2>1, <3>1, <3>2, <3>4 DEF mapped, CapturedRows
    <3>. QED
      BY <3>3, <3>4
  <2>3. CASE ~BackupStep
    <3>1. UNCHANGED <<db, snap, copied>>
      BY <1>0, <1>3, <2>3, CaptureSnaps DEF Work
    <3>. QED
      BY <2>1, <3>1 DEF mapped, CapturedRows
  <2>. QED
    BY <2>2, <2>3
<1>4. CASE Vaultwarden /\ Running /\ UNCHANGED <<preVars, runVars>>
  <2>1. UNCHANGED <<Declared, Copies, result>> /\ result = Absent
    BY <1>4 DEF preVars, runVars, Copies, Running, Declared, Range, Destinations, BucketIfAsked
  <2>2. UNCHANGED CapturedRows
    BY <1>4 DEF Vaultwarden, Commit, Lock, Unlock, ChangeFile, Write, CapturedRows
  <2>3. CASE Commit \/ Unlock
    <3>1. CapturedRows = Absent
      <4>1. stage = "snapshot"
        BY <2>3 DEF Commit, Unlock, Write
      <4>. QED
        BY <1>0, <4>1, PagesAssumption DEF Snapped, CaptureTypeOK, CapturedRows
    <3>2. db' \subseteq Pages
      BY <2>3 DEF Commit, Unlock, Write
    <3>. QED
      BY <2>1, <2>2, <3>1, <3>2 DEF Atomic!Next, Atomic!Write, Declared, Copies
  <2>4. CASE Lock \/ ChangeFile
    BY <2>1, <2>2, <2>4 DEF Lock, ChangeFile, mapped
  <2>. QED
    BY <1>4, <2>3, <2>4 DEF Vaultwarden
<1>5. CASE DeliverNext
  <2> DEFINE d == Destinations[next]
  <2>1. UNCHANGED <<db, CapturedRows, Declared, result>> /\ result = Absent /\ stage = "ready"
        /\ next <= Len(Destinations)
    BY <1>5 DEF DeliverNext, Delivering, Running, preVars, capVars, CapturedRows, Declared, Range,
       Destinations, BucketIfAsked
  <2>2. CapturedRows # Absent
    <3>1. copied = NumPages
      BY <2>1 DEF Snapped
    <3>. QED
      BY <3>1, CapturedWhen
  <2>3. Len(Destinations) \in Nat /\ next \in 1..Len(Destinations)
    BY <2>1, DestinationsHold DEF TypeOK
  <2>4. d \in Places \cup {Bucket} /\ d \in Declared /\ d \in DOMAIN holds
    BY <2>3, DestinationsHold DEF TypeOK, Declared, Range
  <2>5. d \notin Copies
    <3> SUFFICES ASSUME d \in Copies PROVE FALSE
      OBVIOUS
    <3>1. PICK i \in 1..next - 1 : d = Destinations[i]
      BY DEF Copies, OneByOne
    <3>2. i \in 1..Len(Destinations) /\ i # next
      BY <2>3, <3>1
    <3>. QED
      BY <2>3, <3>1, <3>2, DestinationsDistinct DEF OneByOne
  <2>6. Copies' = Copies \cup {d}
    <3>1. Artifact \in Kinds /\ scratch[Artifact] \in {"absent", "partial", "whole"}
      BY <1>0 DEF Artifact, Kinds, CaptureTypeOK
    <3>2. PICK c \in [kind : Kinds, state : {"absent", "partial", "whole"}] : holds' = [holds EXCEPT ![d] = c]
      BY <1>5, <3>1 DEF DeliverNext
    <3>3. DOMAIN holds' = DOMAIN holds /\ holds'[d] # Absent
          /\ \A p \in DOMAIN holds \ {d} : holds'[p] = holds[p]
      BY <2>4, <3>2, AbsentAssumption
    <3>. QED
      BY <2>4, <3>3 DEF Copies
  <2>7. Atomic!Copy(d)
    BY <2>1, <2>2, <2>4, <2>5, <2>6 DEF Atomic!Copy, Declared, Copies
  <2>. QED
    BY <2>4, <2>7 DEF Atomic!Next, Atomic!Copy
<1>6. CASE Return
  <2>1. UNCHANGED <<db, CapturedRows, Declared, Copies>> /\ result = Absent /\ stage = "ready"
        /\ next > Len(Destinations) /\ result' = (IF ~failed THEN "ok" ELSE "error")
    BY <1>6 DEF Return, Leave, Running, Succeeded, preVars, CapturedRows, Copies, Declared, Range,
       Destinations, BucketIfAsked
  <2>2. CapturedRows # Absent
    <3>1. copied = NumPages
      BY <2>1 DEF Snapped
    <3>. QED
      BY <3>1, CapturedWhen
  <2>3. ~failed => Copies = Declared
    <3> SUFFICES ASSUME ~failed PROVE Copies = Declared
      OBVIOUS
    <3>1. Len(Destinations) \in Nat /\ next = Len(Destinations) + 1
      BY <2>1, DestinationsHold DEF TypeOK
    <3>2. \A i \in 1..Len(Destinations) : Destinations[i] \in DOMAIN holds
      BY DestinationsHold
    <3>3. DOMAIN Destinations = 1..Len(Destinations) /\ next - 1 = Len(Destinations)
      BY <3>1, DestinationsHold
    <3>4. Declared \subseteq Copies
      BY <3>2, <3>3 DEF Declared, Range, Copies, OneByOne
    <3>5. Copies \subseteq Declared
      BY <3>3 DEF Declared, Range, Copies, OneByOne
    <3>. QED
      BY <3>4, <3>5
  <2>4. CASE failed
    <3>1. result' = "error"
      BY <2>1, <2>4
    <3>. QED
      BY <2>1, <3>1 DEF Atomic!Next, Atomic!Finish, Declared, Copies
  <2>5. CASE ~failed
    <3>1. result' = "ok" /\ Copies = Declared
      BY <2>1, <2>3, <2>5
    <3>. QED
      BY <2>1, <2>2, <3>1 DEF Atomic!Next, Atomic!Finish, Declared, Copies
  <2>. QED
    BY <2>4, <2>5
<1>7. CASE Refused \/ GiveUp \/ Kill
  <2>1. UNCHANGED <<db, CapturedRows, Declared, Copies>> /\ result = Absent
        /\ result' \in {"error", "killed"}
    BY <1>7 DEF Refused, GiveUp, Leave, Kill, Running, preVars, capVars, CapturedRows, Copies, Declared,
       Range, Destinations, BucketIfAsked
  <2>. QED
    BY <2>1 DEF Atomic!Next, Atomic!Finish, Declared, Copies
<1>8. CASE \/ WorkFails \/ DeliverNextFails \/ UNCHANGED vars
           \/ (\E p \in Links : Relink(p)) /\ UNCHANGED <<capVars, runVars>>
  <2>1. UNCHANGED <<request, targets, db, snap, copied, holds, result>>
    BY <1>8 DEF WorkFails, CaptureFails, DeliverNextFails, Relink, vars, preVars, capVars, runVars
  <2>. QED
    BY <2>1 DEF mapped, CapturedRows, Declared, Range, Destinations, BucketIfAsked, Copies
<1>. QED
  BY <1>2, <1>3, <1>4, <1>5, <1>6, <1>7, <1>8 DEF Next, ProgramStep, Fault, Environment, Done

\* A run behaves as if the database were captured in one instant and each copy
\* made in one more: backup_sqlite's page-wise copying, the archive, encryption
\* and the checks are invisible steps.
THEOREM BackupIsAtomic == Spec => ActsAtomically
<1>1. mapped = <<db, CapturedRows, Range(Destinations), {p \in DOMAIN holds : holds[p] # Absent}, result>>
  BY DEF mapped, Declared, Copies
<1>. QED
  BY <1>1, InitMaps, StepMaps, BackupInvariant, PTL
  DEF Spec, ActsAtomically, Atomic!Spec, mapped, Declared, Copies
=============================================================================
