---------------------------- MODULE MCBackupRun ----------------------------
(***************************************************************************)
(* A file system with a data directory, a directory in it and two others,  *)
(* of which the last is not there at first; "alias" is a link.             *)
(***************************************************************************)
EXTENDS BackupRun

AllPlaces == {"root", "data", "sub", "backups", "new"}
Parents ==
    [d \in AllPlaces |-> IF d = "root" THEN {}
                         ELSE IF d = "sub" THEN {"root", "data"}
                         ELSE {"root"}]
Old == AllPlaces \ {"new"}

\* Every place under its own name, and the link.
Paths == AllPlaces \cup {"alias", "nowhere"}
LeadsTo == [p \in Paths |-> IF p = "alias" THEN "backups" ELSE IF p = "nowhere" THEN "new" ELSE p]

SomeFlags == {"bucket", "prefix"}
Plain ==
    [types |-> {"local"}, source |-> "data", locals |-> <<"alias", "backups">>, s3 |-> {},
     name |-> [length |-> 200, slash |-> FALSE], encryption |-> "none", recipients |-> {}]
Cipher ==
    [Plain EXCEPT !.types = {"local", "s3"}, !.locals = <<"new", "alias">>, !.s3 = SomeFlags,
                  !.encryption = "openpgp", !.recipients = {"known"}]

\* Two good command lines, and what may be wrong with one.
CommandLines ==
    {Plain, Cipher,
     [Plain EXCEPT !.source = Absent],
     [Plain EXCEPT !.source = "nowhere"],
     [Plain EXCEPT !.source = "alias"],
     [Plain EXCEPT !.locals = <<>>],
     [Plain EXCEPT !.types = {"s3"}, !.locals = <<>>, !.s3 = {"bucket"}],
     [Plain EXCEPT !.s3 = SomeFlags],
     [Plain EXCEPT !.locals = <<"new", "sub">>],
     [Plain EXCEPT !.locals = <<"new", "nowhere">>],
     [Plain EXCEPT !.recipients = {"known"}],
     [Cipher EXCEPT !.recipients = {"unknown"}],
     [Cipher EXCEPT !.recipients = {}]}
    \cup {[Plain EXCEPT !.name.length = n] : n \in {0, 201, 211, 255}}
    \cup {[Plain EXCEPT !.name.slash = TRUE]}
=============================================================================
