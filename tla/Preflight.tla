----------------------------- MODULE Preflight -----------------------------
(***************************************************************************)
(* What a run checks before it does any work, and in which order: the      *)
(* flags (main.rs), then name, mode, recipients, source, target            *)
(* directories and collisions (the first half of lib.rs's run).            *)
(*                                                                         *)
(* A path of the command line is a spelling.  Some spellings are symbolic  *)
(* links, which somebody may point elsewhere at any time; link says where  *)
(* each leads now.                                                         *)
(***************************************************************************)
EXTENDS Naturals, Sequences, Functions

CONSTANTS
    Places,     \* physical directories
    Above,      \* Above[d]: the directories above d
    InitDirs,   \* those that exist when the run starts
    Spellings, Links, InitLink,
    S3Flags,    \* the seven --s3-* flags
    Recipients, Keyring,
    Requests,   \* command lines
    Absent,     \* what an option is that was not given
    MaxRelinks, \* bound on the times that a link is pointed elsewhere
    Mishaps     \* what may go wrong, a subset of MishapKinds

MishapKinds == {"gpg", "mkdir", "taken", "bucket", "tempdir"}

ASSUME PlacesAssumption == InitDirs \subseteq Places /\ Above \in [Places -> SUBSET Places]
ASSUME LinksAssumption == Links \subseteq Spellings /\ InitLink \in [Spellings -> Places]
ASSUME RequestsAssumption ==
    \A q \in Requests :
        /\ q.types \subseteq {"local", "s3"} /\ q.types # {}
        /\ q.source \in Spellings \cup {Absent}
        /\ q.locals \in Seq(Spellings) /\ q.s3 \subseteq S3Flags
        /\ q.name \in [length : Nat, slash : BOOLEAN]
        /\ q.encryption \in {"none", "openpgp"} /\ q.recipients \subseteq Recipients
ASSUME RelinksAssumption == MaxRelinks \in Nat
ASSUME MishapsAssumption == Mishaps \subseteq MishapKinds

VARIABLES
    request,
    link, relinks,
    dirs,       \* the directories that exist
    at,         \* the check that run is at, as an index of Checks
    refusedBy,  \* the check that refused the run, or Absent
    source,     \* the source, canonicalized, or Absent
    pending,    \* the target directories still to canonicalize
    made,       \* whether create_dir_all of the first of them is done
    targets     \* the target directories, canonicalized

preVars == <<request, link, relinks, dirs, at, refusedBy, source, pending, made, targets>>

\* A bug would allow what the file system allows, with no room for a suffix.
MaxNameBytesBare == 255
MaxNameBytes == 200

\* check_recipients comes before anything is created; a bug would have it
\* later, say with the other checks of the outside world.
ChecksLate ==
    <<"flags", "name", "mode", "source", "dirs", "recipients", "nesting", "free", "bucket">>
Checks ==
    <<"flags", "name", "mode", "recipients", "source", "dirs", "nesting", "free", "bucket">>

Accepted == at > Len(Checks)
Checking(c) == refusedBy = Absent /\ at \in DOMAIN Checks /\ Checks[at] = c

InitPreflight ==
    /\ request \in Requests
    /\ link = InitLink /\ relinks = 0
    /\ dirs = InitDirs
    /\ at = 1 /\ refusedBy = Absent
    /\ source = Absent
    /\ pending = request.locals /\ made = FALSE
    /\ targets = <<>>

PreTypeOK ==
    /\ request \in Requests
    /\ link \in [Spellings -> Places] /\ relinks \in 0..MaxRelinks
    /\ dirs \subseteq Places
    /\ at \in 1..Len(Checks) + 1 /\ refusedBy \in Range(Checks) \cup {Absent}
    /\ source \in dirs \cup {Absent}
    /\ pending \in Seq(Spellings) /\ made \in BOOLEAN
    /\ targets \in Seq(dirs) /\ Len(targets) + Len(pending) <= Len(request.locals)

-----------------------------------------------------------------------------
\* A declared type needs its flags and a flag its declared type.
FlagsWrong(q) ==
    \/ q.source = Absent
    \/ ("local" \in q.types) # (q.locals # <<>>)
    \/ "s3" \in q.types /\ q.s3 # S3Flags
    \/ "s3" \notin q.types /\ q.s3 # {}

\* check_archive_name
NameWrong(q) == q.name.slash \/ q.name.length \notin 1..MaxNameBytes

\* Recipients are given exactly if encryption is asked for; a bug would let
\* encryption without recipients pass.
ModeLax(q) == q.encryption = "none" /\ q.recipients # {}
ModeWrong(q) == (q.encryption = "openpgp") # (q.recipients # {})

Related(d, e) == d = e \/ d \in Above[e] \/ e \in Above[d]

Wrong(c) ==
    \/ c = "flags" /\ FlagsWrong(request)
    \/ c = "name" /\ NameWrong(request)
    \/ c = "mode" /\ ModeWrong(request)
    \/ c = "recipients" /\ ~(request.recipients \subseteq Keyring)
    \/ c = "nesting" /\ \E i \in DOMAIN targets : Related(targets[i], source)

Refuse(c) ==
    /\ refusedBy' = c
    /\ UNCHANGED <<request, link, relinks, dirs, at, source, pending, made, targets>>

Pass ==
    /\ at' = at + 1
    /\ UNCHANGED <<request, link, relinks, dirs, refusedBy, pending, made, targets>>

\* What only the outside world knows: gpg may be missing, another run may hold
\* this run's file name in a target or in the bucket, which may not answer.
Unlucky(c) ==
    \/ c = "recipients" /\ request.recipients # {} /\ "gpg" \in Mishaps
    \/ c = "free" /\ targets # <<>> /\ "taken" \in Mishaps
    \/ c = "bucket" /\ "s3" \in request.types /\ "bucket" \in Mishaps

\* Checks that only look.
Look(c) ==
    /\ Checking(c)
    /\ c \notin {"source", "dirs"}
    /\ ~Wrong(c)
    /\ Pass /\ UNCHANGED source

LookFails(c) ==
    /\ Checking(c)
    /\ Wrong(c) \/ Unlucky(c)
    /\ Refuse(c)

\* canonicalize, is_dir
FindSource ==
    /\ Checking("source")
    /\ link[request.source] \in dirs
    /\ source' = link[request.source]
    /\ Pass

NoSource ==
    /\ Checking("source")
    /\ link[request.source] \notin dirs
    /\ Refuse("source")

\* create_dir_all: the directory and what is missing above it.  A symbolic
\* link that leads nowhere is in the way of a directory.
MakeDir ==
    /\ Checking("dirs") /\ pending # <<>> /\ ~made
    /\ LET d == link[Head(pending)] IN
          /\ Head(pending) \in Links => d \in dirs
          /\ dirs' = dirs \cup {d} \cup Above[d]
    /\ made' = TRUE
    /\ UNCHANGED <<request, link, relinks, at, refusedBy, source, pending, targets>>

\* What is missing above the directory may be there already when it fails.
MakeDirFails ==
    /\ Checking("dirs") /\ pending # <<>>
    /\ LET d == link[Head(pending)] IN
          /\ "mkdir" \in Mishaps \/ (Head(pending) \in Links /\ d \notin dirs)
          /\ dirs' \in {dirs, dirs \cup Above[d]}
    /\ refusedBy' = "dirs"
    /\ UNCHANGED <<request, link, relinks, at, source, pending, made, targets>>

\* A directory that is there already under another spelling is not taken
\* twice; a bug would compare the spellings.
NewSpelling(d) ==
    \A k \in 1..(Len(request.locals) - Len(pending)) : request.locals[k] # Head(pending)
NewTarget(d) == d \notin Range(targets)

\* canonicalize of a target, wherever its link leads by now.
Canonicalize ==
    /\ Checking("dirs") /\ pending # <<>> /\ made
    /\ LET d == link[Head(pending)] IN
          /\ d \in dirs
          /\ targets' = IF NewTarget(d) THEN Append(targets, d) ELSE targets
    /\ pending' = Tail(pending)
    /\ made' = FALSE
    /\ UNCHANGED <<request, link, relinks, dirs, at, refusedBy, source>>

AllDirs ==
    /\ Checking("dirs") /\ pending = <<>>
    /\ Pass /\ UNCHANGED source

PreflightStep ==
    \/ \E c \in Range(Checks) : Look(c) \/ LookFails(c)
    \/ FindSource \/ NoSource \/ MakeDir \/ MakeDirFails \/ Canonicalize \/ AllDirs

\* Somebody points a link to another directory.
Relink(p) ==
    /\ p \in Links /\ relinks < MaxRelinks
    /\ \E d \in dirs \ {link[p]} : link' = [link EXCEPT ![p] = d]
    /\ relinks' = relinks + 1
    /\ UNCHANGED <<request, dirs, at, refusedBy, source, pending, made, targets>>

-----------------------------------------------------------------------------
(* Properties.                                                             *)

\* A run that is refused for its flags, its name, its mode, its recipients or
\* its source has created nothing ("a typo fails before any backup work and
\* writes nothing").
EarlyRefusalsWriteNothing ==
    refusedBy \in {"flags", "name", "mode", "recipients", "source"} => dirs = InitDirs

\* The longest name made from an accepted --name, which is that of a part in
\* a target (a dash, 20 bytes of stamp, .tgz.gpg, .part. and a process id of
\* ten digits at most), is one that file systems take.
NamesFit == Accepted => request.name.length + 1 + 20 + 8 + 6 + 10 <= 255
=============================================================================
