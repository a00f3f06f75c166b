---------------------------- MODULE AtomicBackup ----------------------------
(***************************************************************************)
(* What a backup promises to its operator: at one moment the database is   *)
(* captured, all of it; what is captured never changes after; copies       *)
(* appear, each complete, at the declared destinations and only there; and *)
(* the run says "ok" only if there is a copy at each.                      *)
(***************************************************************************)
CONSTANTS
    Rows,           \* what the database may hold
    Destinations,   \* where a copy may go
    NotYet          \* of the capture and of the result

VARIABLES
    current,    \* the rows of the database
    captured,   \* those captured, or NotYet
    declared,   \* the destinations of this run
    copies,     \* those that have a copy
    result      \* "ok", "error" or "killed", or NotYet

Init ==
    /\ current \subseteq Rows
    /\ captured = NotYet
    /\ declared \subseteq Destinations /\ copies = {}
    /\ result = NotYet

\* The operator's declaration takes effect; it is not revised once there is
\* a capture.
Declare ==
    /\ result = NotYet /\ captured = NotYet
    /\ declared' \subseteq Destinations
    /\ UNCHANGED <<current, captured, copies, result>>

\* Transactions of vaultwarden, until they no longer matter.
Write ==
    /\ result = NotYet /\ captured = NotYet
    /\ current' \subseteq Rows
    /\ UNCHANGED <<captured, declared, copies, result>>

Capture ==
    /\ result = NotYet /\ captured = NotYet
    /\ captured' = current
    /\ UNCHANGED <<current, declared, copies, result>>

Copy(d) ==
    /\ result = NotYet /\ captured # NotYet
    /\ d \in declared \ copies
    /\ copies' = copies \cup {d}
    /\ UNCHANGED <<current, captured, declared, result>>

Finish ==
    /\ result = NotYet
    /\ \/ result' = "ok" /\ captured # NotYet /\ copies = declared
       \/ result' \in {"error", "killed"}
    /\ UNCHANGED <<current, captured, declared, copies>>

Next == Declare \/ Write \/ Capture \/ (\E d \in Destinations : Copy(d)) \/ Finish

Spec == Init /\ [][Next]_<<current, captured, declared, copies, result>>
=============================================================================
