----------------------------- MODULE BackupRun -----------------------------
(***************************************************************************)
(* One run of the program from its command line to its exit status: the    *)
(* checks of Preflight, the work of Capture, and then one artifact to all  *)
(* targets (the second half of lib.rs's run).  Meanwhile vaultwarden       *)
(* writes, and links on the way to the targets are pointed elsewhere.      *)
(*                                                                         *)
(* Delivery to one local directory is Delivery's, upload is S3Upload's and *)
(* what cleanup deletes is Retention's: here a destination either gets the *)
(* artifact or does not.                                                   *)
(***************************************************************************)
EXTENDS Preflight, Capture

CONSTANT Bucket  \* the S3 object of this run

ASSUME BucketAssumption == Bucket \notin Places
ASSUME AbsentAssumption ==
    /\ Absent \notin {"ok", "error", "killed"} \cup Range(Checks)
    /\ \A rows \in SUBSET Pages : rows # Absent
    /\ \A a \in [kind : Kinds, state : {"absent", "partial", "whole"}] : a # Absent

VARIABLES
    holds,      \* what destinations hold under this run's file name
    next,       \* the destination that is next, an index of Destinations
    delivered,  \* where the artifact has gone
    failed,     \* whether a destination has failed
    result      \* "ok", "error" or "killed", or Absent while the run lasts

runVars == <<holds, next, delivered, failed, result>>
vars == <<preVars, capVars, runVars>>

Openpgp == request.encryption = "openpgp"
Running == result = Absent

\* A directory is the one that was checked; a bug would go by the spelling
\* once more.
BucketIfAsked == IF "s3" \in request.types THEN <<Bucket>> ELSE <<>>
DestinationsRespelled ==
    [i \in DOMAIN targets |-> link[request.locals[i]]] \o BucketIfAsked
Destinations == targets \o BucketIfAsked

\* What is delivered; a bug would take what create() returned.
ArtifactPlain == "tgz"
Artifact == IF Openpgp THEN "gpg" ELSE "tgz"

\* The run is a success; a bug would ask whether anything was delivered.
SucceededSomewhere == delivered # <<>>
Succeeded == ~failed

\* The scratch directory is removed when it goes out of scope, on all paths.
\* Nobody hears of a removal that fails, and what it leaves.
Leftovers ==
    {[k \in Kinds |-> IF k \in left THEN scratch[k] ELSE "absent"] :
        left \in IF "tempdir" \in Mishaps THEN SUBSET Kinds ELSE {{}}}

Init ==
    /\ InitPreflight /\ InitCapture
    /\ holds = [p \in Places \cup {Bucket} |-> Absent]
    /\ next = 1 /\ delivered = <<>> /\ failed = FALSE
    /\ result = Absent

TypeOK ==
    /\ PreTypeOK /\ CaptureTypeOK
    /\ holds \in [Places \cup {Bucket} ->
                    {Absent} \cup [kind : Kinds, state : {"absent", "partial", "whole"}]]
    /\ next \in 1..Len(Destinations) + 1
    /\ delivered \in Seq(dirs \cup {Bucket}) /\ Len(delivered) < next
    /\ failed \in BOOLEAN
    /\ result \in {Absent, "ok", "error", "killed"}

-----------------------------------------------------------------------------
Check ==
    /\ Running /\ PreflightStep
    /\ UNCHANGED <<capVars, runVars>>

Refused ==
    /\ Running /\ refusedBy # Absent
    /\ result' = "error"
    /\ UNCHANGED <<preVars, capVars, holds, next, delivered, failed>>

Work ==
    /\ Running /\ Accepted
    /\ CaptureStep(Openpgp)
    /\ UNCHANGED <<preVars, runVars>>

WorkFails ==
    /\ Running /\ Accepted
    /\ CaptureFails
    /\ UNCHANGED <<preVars, runVars>>

Delivering == Running /\ stage = "ready" /\ next <= Len(Destinations)

DeliverNext ==
    /\ Delivering
    /\ holds' = [holds EXCEPT ![Destinations[next]] =
                    [kind |-> Artifact, state |-> scratch[Artifact]]]
    /\ delivered' = Append(delivered, Destinations[next])
    /\ next' = next + 1
    /\ UNCHANGED <<preVars, capVars, failed, result>>

DeliverNextFails ==
    /\ Delivering
    /\ failed' = TRUE
    /\ next' = next + 1
    /\ UNCHANGED <<preVars, capVars, holds, delivered, result>>

\* The end of run(), by `?` or by its last expression.
Leave(ok) ==
    /\ result' = IF ok THEN "ok" ELSE "error"
    /\ scratch' \in Leftovers
    /\ UNCHANGED <<preVars, db, locked, files, stage, snap, copied, stale, kept, listed,
                   archived, holds, next, delivered, failed>>

GiveUp == Running /\ stage = "failed" /\ Leave(FALSE)
Return == Running /\ stage = "ready" /\ next > Len(Destinations) /\ Leave(Succeeded)

Kill ==
    /\ Running /\ result' = "killed"
    /\ UNCHANGED <<preVars, capVars, holds, next, delivered, failed>>

ProgramStep == Check \/ Refused \/ Work \/ DeliverNext \/ GiveUp \/ Return

Fault == WorkFails \/ DeliverNextFails \/ Kill

Environment ==
    \/ Accepted /\ Vaultwarden /\ UNCHANGED <<preVars, runVars>>
    \/ (\E p \in Links : Relink(p)) /\ UNCHANGED <<capVars, runVars>>

Done == ~Running /\ UNCHANGED vars

Next == ProgramStep \/ Fault \/ (Running /\ Environment) \/ Done

Spec == Init /\ [][Next]_vars
\* The program goes on while it can; nobody owes it a fault.
FairSpec == Spec /\ WF_vars(ProgramStep)

-----------------------------------------------------------------------------
(* Properties.                                                             *)

\* No archive lands inside the directory it is made from, above it or in it,
\* wherever links are pointed between the checks and the delivery.
ArchiveOutsideSource ==
    \A p \in Places : holds[p] # Absent => ~Related(p, source)

\* One physical directory gets one archive and is reported once, whatever its
\* spellings; the report is in the order of the targets, the object last.
ReportedOnce ==
    result = "ok" =>
        /\ delivered = Destinations
        /\ \A i, j \in DOMAIN delivered : delivered[i] = delivered[j] => i = j
        /\ \A p \in Range(delivered) : holds[p] # Absent

\* What a destination holds is whole, and ciphertext exactly if encryption was
\* asked for.
DeliveredAsDeclared ==
    \A p \in DOMAIN holds : holds[p] # Absent =>
        /\ holds[p].state = "whole"
        /\ (holds[p].kind = "gpg") <=> (request.recipients # {})

\* "Plaintext never lingers next to the ciphertext": an encrypted run has
\* removed the plaintext archive before the ciphertext goes anywhere, and with
\* the archive in place it is gone for good, be it that the run is killed then
\* or that its scratch directory cannot be removed.
PlaintextGone ==
    Openpgp /\ (\E p \in DOMAIN holds : holds[p] # Absent) =>
        scratch["tgz.part"] = "absent" /\ scratch["tgz"] = "absent"

\* Once vaultwarden no longer writes to the database, every run comes to an
\* end, be it that somebody keeps the database locked.
BackupEnds == <>[][FALSE]_db => <>~Running

-----------------------------------------------------------------------------
(* The inductive invariant behind the safety properties.                   *)

Passed(c) == \A i \in DOMAIN Checks : Checks[i] = c => at > i

\* What the checks have found still holds when the archive is delivered.
Vetted ==
    /\ Passed("mode") => ~ModeWrong(request)
    /\ Passed("nesting") => \A i \in DOMAIN targets : ~Related(targets[i], source)

\* Nothing is in scratch or on the way before the last check.
NothingYet ==
    /\ ~Accepted => stage = "temp" /\ scratch = NoScratch /\ next = 1 /\ delivered = <<>>
    /\ refusedBy # Absent => ~Accepted

Unwalked == stage \in {"temp", "snapshot", "append", "list"} => archived = {}

\* While the online backup lasts, what it has copied is what the database
\* holds, unless it is about to start over.
Snapped ==
    /\ stage = "temp" => copied = 0 /\ snap = {}
    /\ stage = "snapshot" => copied < NumPages /\ (~stale => snap = {p \in db : p <= copied})
    /\ stage \notin {"temp", "snapshot", "failed"} => copied = NumPages

\* How far the artifact is, at each stage.
Progress ==
    /\ stage \in {"gpg", "gpgRename", "dropPlain"} => Openpgp
    /\ Running =>
          /\ stage = "publish" => scratch["tgz.part"] = "whole"
          /\ stage \in {"drop", "gpg"} => scratch["tgz"] = "whole"
          /\ stage = "gpgRename" => scratch["gpg.part"] = "whole"
          /\ stage = "dropPlain" => scratch["gpg"] = "whole"
          /\ stage = "ready" => scratch[Artifact] = "whole"

\* What is used up is gone, and nothing is delivered before all of it is.
Consumed ==
    /\ stage \in {"drop", "gpg", "gpgRename", "dropPlain", "ready"} =>
          scratch["tgz.part"] = "absent"
    /\ stage = "ready" /\ Openpgp => scratch["tgz"] = "absent"
    /\ (\E p \in DOMAIN holds : holds[p] # Absent) => stage = "ready"

\* What destinations hold is this run's whole artifact, in vetted targets.
Placed ==
    \A p \in DOMAIN holds : holds[p] # Absent =>
        /\ Accepted
        /\ p \in Range(targets) \cup {Bucket}
        /\ holds[p] = [kind |-> Artifact, state |-> "whole"]

\* Destinations are taken one by one, and none twice.
OneByOne ==
    /\ \A i, j \in DOMAIN targets : targets[i] = targets[j] => i = j
    /\ \A p \in DOMAIN holds : holds[p] # Absent => \E i \in 1..next - 1 : p = Destinations[i]
    /\ ~failed =>
          /\ Len(delivered) = next - 1
          /\ \A i \in 1..next - 1 :
                delivered[i] = Destinations[i] /\ holds[Destinations[i]] # Absent
    /\ result = "ok" => ~failed /\ next = Len(Destinations) + 1

BackupInv ==
    /\ TypeOK /\ Vetted /\ NothingYet /\ Unwalked /\ Snapped
    /\ Progress /\ Consumed /\ Placed /\ OneByOne

-----------------------------------------------------------------------------
(* A run implements AtomicBackup.                                          *)

\* The snapshot counts from its last step on; a run that has failed before it
\* has captured nothing.
CapturedRows == IF copied = NumPages THEN snap ELSE Absent

Atomic == INSTANCE AtomicBackup WITH
    Rows <- Pages, Destinations <- Places \cup {Bucket}, NotYet <- Absent,
    current <- db, captured <- CapturedRows,
    declared <- Range(Destinations),
    copies <- {p \in DOMAIN holds : holds[p] # Absent}

\* The backup behaves as if the database were captured in one instant and each
\* copy made in one more, with the steps in between invisible.
ActsAtomically == Atomic!Spec
=============================================================================
