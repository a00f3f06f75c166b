---------------------------- MODULE MCRetention ----------------------------
(***************************************************************************)
(* Instances of Retention for TLC: two runs of one --name, or of two, with *)
(* a local directory and a bucket as targets.                              *)
(***************************************************************************)
EXTENDS Retention

CONSTANTS r1, r2, l1, s1, tgz, gpg, vw, vwDash

OneName    == [r \in Runs |-> vw]
TwoNames   == [r \in Runs |-> IF r = r1 THEN vwDash ELSE vw]
DashPair   == {<<vw, vwDash>>}
AllTargets == [r \in Runs |-> Locations]

\* The operator switches to encryption after the first run.
Switched == [r \in Runs |-> IF r = r1 THEN tgz ELSE gpg]

\* A period of one second for both, or two jobs with periods of their own.
OneSecond == [r \in Runs |-> 1]
Mixed     == [r \in Runs |-> IF r = r1 THEN 2 ELSE 1]

AllFaults  == FaultKinds
ClockRight == FaultKinds \ {"clock"}
=============================================================================
