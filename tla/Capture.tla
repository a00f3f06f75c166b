------------------------------ MODULE Capture ------------------------------
(***************************************************************************)
(* The work of one run in its scratch directory: snapshot of the database  *)
(* (db.rs), archive of the snapshot and of the other files (archive.rs),   *)
(* encryption (crypto.rs), while vaultwarden goes on writing.              *)
(*                                                                         *)
(* The database is a set of rows, row p on page p; row p belongs to the    *)
(* attachment file p.  The walk over the files is FileWalk's, here with a  *)
(* file as one step.                                                       *)
(***************************************************************************)
EXTENDS Naturals, Sequences

CONSTANTS
    NumPages,       \* pages of the database, and names of attachments
    PagesPerStep    \* pages that one step of the online backup copies

ASSUME PagesAssumption == NumPages \in Nat \ {0} /\ PagesPerStep \in Nat \ {0}

VARIABLES
    db, locked, \* the committed rows; whether a writer shuts readers out
    files,      \* the attachment files that are there
    stage,      \* where the run is
    snap, copied, stale, \* rows and pages copied; whether db changed since
    kept,       \* the files there when the snapshot was done, and ever since
    listed,     \* files the walk has still to visit
    archived,   \* files the walk has put into the archive
    scratch     \* the files of the scratch directory

capVars == <<db, locked, files, stage, snap, copied, stale, kept, listed, archived, scratch>>

Pages == 1..NumPages
Kinds == {"snap", "tgz.part", "tgz", "gpg.part", "gpg"}
NoScratch == [k \in Kinds |-> "absent"]

\* The database comes before the files; a bug would walk the files first.
FilesFirst ==
    <<"temp", "list", "walk", "snapshot", "append", "finish", "publish", "drop",
      "gpg", "gpgRename", "dropPlain">>
Steps ==
    <<"temp", "snapshot", "append", "list", "walk", "finish", "publish", "drop",
      "gpg", "gpgRename", "dropPlain">>
Stages == {Steps[i] : i \in DOMAIN Steps} \cup {"ready", "failed"}

\* The stage after s, where openpgp says whether the run encrypts.
After(s, openpgp) ==
    LET i == CHOOSE i \in DOMAIN Steps : Steps[i] = s IN
    IF i = Len(Steps) \/ (s = "drop" /\ ~openpgp) THEN "ready" ELSE Steps[i + 1]

InitCapture ==
    /\ db \in SUBSET Pages /\ locked = FALSE
    /\ files \in SUBSET Pages
    /\ stage = "temp"
    /\ snap = {} /\ copied = 0 /\ stale = FALSE
    /\ kept = {} /\ listed = {} /\ archived = {}
    /\ scratch = NoScratch

CaptureTypeOK ==
    /\ db \subseteq Pages /\ locked \in BOOLEAN
    /\ files \subseteq Pages
    /\ stage \in Stages
    /\ snap \subseteq Pages /\ copied \in 0..NumPages /\ stale \in BOOLEAN
    /\ kept \subseteq files
    /\ listed \subseteq Pages /\ archived \subseteq Pages \ listed
    /\ scratch \in [Kinds -> {"absent", "partial", "whole"}]

-----------------------------------------------------------------------------
(* Snapshot.                                                               *)

MakeTemp ==
    /\ stage = "temp"
    /\ stage' = After("temp", FALSE)
    /\ UNCHANGED <<db, locked, files, snap, copied, stale, kept, listed, archived, scratch>>

\* The page after which the next step goes on.  SQLite starts over when
\* another connection has written to the source; a copy of the file, page by
\* page, would not.
ResumeAnyway == copied
Resume == IF stale THEN 0 ELSE copied

Upto(first) == IF first + PagesPerStep < NumPages THEN first + PagesPerStep ELSE NumPages

BackupStep ==
    /\ stage = "snapshot" /\ ~locked
    /\ copied' = Upto(Resume)
    /\ snap' = {p \in snap : p <= Resume} \cup {p \in db : Resume < p /\ p <= copied'}
    /\ stale' = FALSE
    /\ IF copied' < NumPages
       THEN /\ scratch' = [scratch EXCEPT !["snap"] = "partial"]
            /\ UNCHANGED <<stage, kept>>
       ELSE /\ scratch' = [scratch EXCEPT !["snap"] = "whole"]
            /\ stage' = After("snapshot", FALSE)
            /\ kept' = files
    /\ UNCHANGED <<db, locked, files, listed, archived>>

\* A writer shuts the backup out for longer than the busy timeout, and the
\* run gives up; a bug would try again for as long as it takes.
BusyRetries ==
    /\ stage = "snapshot" /\ locked
    /\ UNCHANGED capVars
BackupBusy ==
    /\ stage = "snapshot" /\ locked
    /\ stage' = "failed"
    /\ UNCHANGED <<db, locked, files, snap, copied, stale, kept, listed, archived, scratch>>

-----------------------------------------------------------------------------
(* Archive.                                                                *)

\* The part is created and the snapshot goes into it.
AppendSnap ==
    /\ stage = "append"
    /\ scratch' = [scratch EXCEPT !["tgz.part"] = "partial"]
    /\ stage' = After("append", FALSE)
    /\ UNCHANGED <<db, locked, files, snap, copied, stale, kept, listed, archived>>

List ==
    /\ stage = "list"
    /\ listed' = files
    /\ stage' = After("list", FALSE)
    /\ UNCHANGED <<db, locked, files, snap, copied, stale, kept, archived, scratch>>

\* What is left of the walk after f; a bug would look at f and not take it.
RestPeeked(f) == listed
Rest(f) == listed \ {f}

\* Files are taken in the order of names.
Upcoming(f) == stage = "walk" /\ f \in listed /\ \A g \in listed : f <= g

Visit(f) ==
    /\ Upcoming(f) /\ f \in files
    /\ listed' = Rest(f)
    /\ archived' = archived \cup {f}
    /\ UNCHANGED <<db, locked, files, stage, snap, copied, stale, kept, scratch>>

WalkDone ==
    /\ stage = "walk" /\ listed = {}
    /\ stage' = After("walk", FALSE)
    /\ UNCHANGED <<db, locked, files, snap, copied, stale, kept, listed, archived, scratch>>

Finish ==
    /\ stage = "finish"
    /\ scratch' = [scratch EXCEPT !["tgz.part"] = "whole"]
    /\ stage' = After("finish", FALSE)
    /\ UNCHANGED <<db, locked, files, snap, copied, stale, kept, listed, archived>>

Renamed(from, to) == [scratch EXCEPT ![to] = scratch[from], ![from] = "absent"]

Publish ==
    /\ stage = "publish"
    /\ scratch' = Renamed("tgz.part", "tgz")
    /\ stage' = After("publish", FALSE)
    /\ UNCHANGED <<db, locked, files, snap, copied, stale, kept, listed, archived>>

\* The snapshot is removed, and an error of that is ignored.
DropSnap(openpgp) ==
    /\ stage = "drop"
    /\ scratch' \in {scratch, [scratch EXCEPT !["snap"] = "absent"]}
    /\ stage' = After("drop", openpgp)
    /\ UNCHANGED <<db, locked, files, snap, copied, stale, kept, listed, archived>>

-----------------------------------------------------------------------------
(* Encryption.                                                             *)

Gpg ==
    /\ stage = "gpg"
    /\ scratch' = [scratch EXCEPT !["gpg.part"] = scratch["tgz"]]
    /\ stage' = After("gpg", TRUE)
    /\ UNCHANGED <<db, locked, files, snap, copied, stale, kept, listed, archived>>

GpgRename ==
    /\ stage = "gpgRename"
    /\ scratch' = Renamed("gpg.part", "gpg")
    /\ stage' = After("gpgRename", TRUE)
    /\ UNCHANGED <<db, locked, files, snap, copied, stale, kept, listed, archived>>

\* The plaintext is removed, and an error of that fails the run; a bug would
\* ignore it, as with the snapshot.
DropPlainOrNot ==
    /\ stage = "dropPlain"
    /\ scratch' \in {scratch, [scratch EXCEPT !["tgz"] = "absent"]}
    /\ stage' = After("dropPlain", TRUE)
    /\ UNCHANGED <<db, locked, files, snap, copied, stale, kept, listed, archived>>
DropPlain ==
    /\ stage = "dropPlain"
    /\ scratch' = [scratch EXCEPT !["tgz"] = "absent"]
    /\ stage' = After("dropPlain", TRUE)
    /\ UNCHANGED <<db, locked, files, snap, copied, stale, kept, listed, archived>>

-----------------------------------------------------------------------------
(* Any call may fail.                                                      *)

\* The file that a failing stage may have begun to write.
Begins(s) ==
    CASE s = "snapshot" -> {"snap"}
      [] s = "append" -> {"tgz.part"}
      [] s = "gpg" -> {"gpg.part"}
      [] OTHER -> {}

\* What a failing stage removes, if the removal works: create() its part,
\* encrypt() part and plaintext when gpg fails; a gpg that cannot be started,
\* and a failing rename, remove nothing.
Removes(s) ==
    CASE s \in {"append", "list", "walk", "finish", "publish"} -> {"tgz.part"}
      [] s = "gpg" -> {"gpg.part", "tgz"}
      [] OTHER -> {}

CaptureFails ==
    /\ stage \notin {"drop", "ready", "failed"}
    /\ \E begun \in SUBSET Begins(stage), gone \in SUBSET Removes(stage) :
          scratch' = [k \in Kinds |->
                        IF k \in gone THEN "absent"
                        ELSE IF k \in begun THEN "partial"
                        ELSE scratch[k]]
    /\ stage' = "failed"
    /\ UNCHANGED <<db, locked, files, snap, copied, stale, kept, listed, archived>>

\* A file that was listed and is gone ends the walk.
VisitGone(f) == Upcoming(f) /\ f \notin files /\ CaptureFails

CaptureStep(openpgp) ==
    \/ MakeTemp \/ BackupStep \/ BackupBusy
    \/ AppendSnap \/ List \/ (\E f \in Pages : Visit(f) \/ VisitGone(f)) \/ WalkDone
    \/ Finish \/ Publish \/ DropSnap(openpgp)
    \/ Gpg \/ GpgRename \/ DropPlain

-----------------------------------------------------------------------------
(* Vaultwarden.  What it does to the database matters while the snapshot   *)
(* is taken, and what it does to the files until the walk is over.         *)

Write(rows) ==
    /\ stage = "snapshot"
    /\ db' = rows
    /\ stale' = (stale \/ rows # db)

Commit ==
    /\ ~locked
    /\ \E rows \in SUBSET Pages \ {db} : Write(rows)
    /\ UNCHANGED <<locked, files, stage, snap, copied, kept, listed, archived, scratch>>

\* A transaction that shuts readers out, and its end, with or without effect.
Lock ==
    /\ stage = "snapshot" /\ ~locked
    /\ locked' = TRUE
    /\ UNCHANGED <<db, files, stage, snap, copied, stale, kept, listed, archived, scratch>>

Unlock ==
    /\ locked
    /\ \E rows \in SUBSET Pages : Write(rows)
    /\ locked' = FALSE
    /\ UNCHANGED <<files, stage, snap, copied, kept, listed, archived, scratch>>

ChangeFile ==
    /\ stage \in {"snapshot", "append", "list", "walk"}
    /\ \E f \in Pages :
          files' = IF f \in files THEN files \ {f} ELSE files \cup {f}
    /\ kept' = kept \cap files'
    /\ UNCHANGED <<db, locked, stage, snap, copied, stale, listed, archived, scratch>>

Vaultwarden == Commit \/ Lock \/ Unlock \/ ChangeFile

-----------------------------------------------------------------------------
(* Properties.                                                             *)

\* A row that is in the archive has its file there too, if the file was there
\* when the snapshot was complete and has not been removed since.
RowsHaveFiles ==
    stage \in {"finish", "publish", "drop", "gpg", "gpgRename", "dropPlain", "ready"}
        => snap \cap kept \subseteq archived
=============================================================================
