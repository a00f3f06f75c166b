----------------------------- MODULE MCDelivery -----------------------------
(***************************************************************************)
(* Instances of Delivery for TLC: two runs of one file name and process    *)
(* id, and two directories.                                                *)
(***************************************************************************)
EXTENDS Delivery

CONSTANTS r1, r2, d1, d2, n1, n2, p1, p2

SameName == [r \in Runs |-> n1]
OnePid   == [r \in Runs |-> p1]

\* Every run delivers to every directory.
AllTargets == [r \in Runs |-> Dirs]

\* Calls may fail; nothing is killed, and the disk is memory.
SoftFaults  == {"work", "copy", "write", "fsync", "rename", "syncdir"}
PowerFaults == {"rename", "syncdir", "unlink", "kill", "power"}
=============================================================================
