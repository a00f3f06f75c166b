---------------------------- MODULE ArchiveStore ----------------------------
(***************************************************************************)
(* What delivery promises to whoever looks into the local target          *)
(* directories: an archive appears under its final name in one step and    *)
(* whole, nothing ever replaces it, and a target reported delivered        *)
(* without a warning keeps its archive even if the machine loses power.    *)
(* Delivery.tla is the detailed specification that implements this one.    *)
(***************************************************************************)
CONSTANTS
    Runs,        \* invocations of vaultwarden_backup::run
    Dirs,        \* local target directories
    Names,       \* final file names <name>-<stamp>.tgz[.gpg]
    FinalName,   \* FinalName[r] is the file name run r minted at its start
    None         \* no file

VARIABLES
    archives,    \* archives[d][n]: the run whose whole artifact is at d/n
    settled,     \* settled[d]: the names in d that survive a power loss
    reported,    \* reported[r]: the targets run r counts as delivered
    warned       \* warned[r]: those of them reported with a durability warning

storeVars == <<archives, settled, reported, warned>>

NamesIn(d) == {n \in Names : archives[d][n] # None}

Init ==
    /\ archives = [d \in Dirs |-> [n \in Names |-> None]]
    /\ settled  = [d \in Dirs |-> {}]
    /\ reported = [r \in Runs |-> {}]
    /\ warned   = [r \in Runs |-> {}]

\* The rename: the whole artifact of r takes a name nobody holds.
Publish(r, d) ==
    /\ archives[d][FinalName[r]] = None
    /\ archives' = [archives EXCEPT ![d][FinalName[r]] = r]
    /\ UNCHANGED <<settled, reported, warned>>

\* The operating system writes the directory back of its own accord.
Settle(d) ==
    /\ settled' = [settled EXCEPT ![d] = NamesIn(d)]
    /\ UNCHANGED <<archives, reported, warned>>

\* r counts d as delivered: its archive is there, and survives from now on.
Report(r, d) ==
    /\ archives[d][FinalName[r]] = r
    /\ settled' = [settled EXCEPT ![d] = NamesIn(d)]
    /\ reported' = [reported EXCEPT ![r] = @ \cup {d}]
    /\ UNCHANGED <<archives, warned>>

\* The same when the directory could not be synced: delivered, with a warning.
ReportWarned(r, d) ==
    /\ archives[d][FinalName[r]] = r
    /\ reported' = [reported EXCEPT ![r] = @ \cup {d}]
    /\ warned' = [warned EXCEPT ![r] = @ \cup {d}]
    /\ UNCHANGED <<archives, settled>>

LosePower ==
    /\ archives' = [d \in Dirs |-> [n \in Names |->
                        IF n \in settled[d] THEN archives[d][n] ELSE None]]
    /\ UNCHANGED <<settled, reported, warned>>

Next ==
    \/ \E r \in Runs, d \in Dirs :
          Publish(r, d) \/ Report(r, d) \/ ReportWarned(r, d)
    \/ \E d \in Dirs : Settle(d)
    \/ LosePower

Spec == Init /\ [][Next]_storeVars
=============================================================================
