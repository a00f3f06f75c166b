----------------------------- MODULE MCFileWalk -----------------------------
(***************************************************************************)
(* A data directory for TLC, numbered in depth-first name order:           *)
(* attachments (1) with a file (2) in it, config.json (3), db.sqlite3 (4)  *)
(* and a symlink (5).                                                      *)
(***************************************************************************)
EXTENDS FileWalk

InAttachments == [p \in Paths |-> IF p = 2 THEN 1 ELSE 0]
=============================================================================
